---------------------------- MODULE Spec2Model ----------------------------
(***************************************************************************)
(* Signal aggregation core of the GPW screener (src/app.py):               *)
(* CompanySignals, aggregate_signals and the report builders.              *)
(*                                                                         *)
(* Representation                                                          *)
(*  - A Python str is a sequence of one-character strings, so that the     *)
(*    regular expression of _parse_flags and the slices [:15] and [:12]    *)
(*    are computed and not assumed.                                        *)
(*  - A Python value is a record [k, s, n]: k is its kind ("None", "NaN",  *)
(*    "str", "int"), s its text, n its number.  A row of a DataFrame is a  *)
(*    record of such values; the kind "absent" marks a column the table    *)
(*    does not have, which is what row.get(key, default) defaults on.      *)
(*  - Category weights are kept in tenths (1.5 -> 15), scores in tenths,   *)
(*    and signal strength in units of 1/Scale, all as exact integers.  The *)
(*    code computes them in binary floating point; the model computes the  *)
(*    exact decimal value of the same expression.                          *)
(***************************************************************************)
EXTENDS Integers, Sequences, FiniteSets, TLC

VARIABLES
    pc,         \* "aggregate" | "returned" | "raised" | "direct"
    results,    \* the Dict[str, DataFrame] as iterated so far: <<[model_name, rows]>>
    companies,  \* Dict[str, CompanySignals] in insertion order: <<[ticker, rynek, appearances]>>
    call,       \* the arguments of the last add_appearance call (or NoCall)
    report      \* the result of the last report builder call (or NoReport)

vars == <<pc, results, companies, call, report>>

----------------------------------------------------------------------------
(* Bounds of the model                                                     *)

MaxTables == 2
MaxRows == 3
MaxCoverage == 5
MaxCompanies == 4
MaxScanners == 4
MaxTextLen == 6

----------------------------------------------------------------------------
(* Python values                                                           *)

PyNone == [k |-> "None", s |-> <<>>, n |-> 0]
NaN == [k |-> "NaN", s |-> <<>>, n |-> 0]
Absent == [k |-> "absent", s |-> <<>>, n |-> 0]
PyStr(chars) == [k |-> "str", s |-> chars, n |-> 0]
PyInt(i) == [k |-> "int", s |-> <<>>, n |-> i]
\* a float, kept in tenths
PyFloat(tenths) == [k |-> "float", s |-> <<>>, n |-> tenths]

\* Python truthiness: None, '' and 0 are falsy; NaN (a non-zero float) is truthy.
Truthy(v) ==
    CASE v.k = "None" -> FALSE
      [] v.k = "NaN" -> TRUE
      [] v.k = "str" -> v.s # <<>>
      [] v.k \in {"int", "float"} -> v.n # 0
      [] OTHER -> FALSE

\* pd.isna on a scalar
isna(v) == v.k \in {"None", "NaN"}

\* str(v), as a character sequence
str(v) ==
    CASE v.k = "None" -> <<"N", "o", "n", "e">>
      [] v.k = "NaN" -> <<"n", "a", "n">>
      [] v.k = "str" -> v.s
      [] OTHER -> <<>>

\* row.get(key) and row.get(key, default) on a row of df.iterrows()
RowGet_subscript(row, key, default) == row[key]
RowGet(row, key, default) == IF row[key].k = "absent" THEN default ELSE row[key]

Min(a, b) == IF a <= b THEN a ELSE b

Range(f) == {f[i] : i \in DOMAIN f}

----------------------------------------------------------------------------
(* Configuration tables                                                    *)

RankPointsTop5 == 5
RankPointsTop10 == 3
RankPointsTop20 == 1
DefaultRank == 999
NumModelThemes == 7
ThesisStrong == 15
ThesisMedium == 10
CoverageCap == 4
ConsistencyCap == 5
TopModelChars == 15
ShortModelChars == 12

\* FLAG_CATEGORIES, in the order of the dict literal
FLAG_CATEGORIES ==
    << [cat |-> "quality",    flags |-> << <<"Q">> >>],
       [cat |-> "growth",     flags |-> << <<"G">>, <<"R">> >>],
       [cat |-> "value",      flags |-> << <<"V">>, <<"D">> >>],
       [cat |-> "momentum",   flags |-> << <<"M">>, <<"A">> >>],
       [cat |-> "safety",     flags |-> << <<"S">>, <<"B">>, <<"L">> >>],
       [cat |-> "cash",       flags |-> << <<"C">> >>],
       [cat |-> "turnaround", flags |-> << <<"T">> >>],
       [cat |-> "warning",    flags |-> << <<"!">>, <<"?">> >>] >>

Categories == {FLAG_CATEGORIES[i].cat : i \in DOMAIN FLAG_CATEGORIES}

\* FLAG_TO_CATEGORY: flag in FLAG_TO_CATEGORY
FlagMapped(flag) ==
    \E i \in DOMAIN FLAG_CATEGORIES : flag \in Range(FLAG_CATEGORIES[i].flags)

\* FLAG_TO_CATEGORY[flag]: the loop assigns in table order, so the last category
\* listing a flag would win; no flag is listed twice.
FLAG_TO_CATEGORY(flag) ==
    LET hits == {i \in DOMAIN FLAG_CATEGORIES : flag \in Range(FLAG_CATEGORIES[i].flags)}
        last == CHOOSE i \in hits : \A j \in hits : j <= i
    IN  FLAG_CATEGORIES[last].cat

\* CATEGORY_WEIGHTS, in tenths
CATEGORY_WEIGHTS(cat) ==
    CASE cat = "quality" -> 15
      [] cat = "growth" -> 13
      [] cat = "value" -> 12
      [] cat = "momentum" -> 11
      [] cat = "safety" -> 14
      [] cat = "cash" -> 13
      [] cat = "turnaround" -> 10
      [] cat = "warning" -> -20
      [] OTHER -> 10

\* Signal strength is kept in units of 1/Scale: Scale is a multiple of 20 (the
\* bonus 0.5 * 0.1) and of every coverage 1..7 (the division of flag density).
Scale == 20 * 21

----------------------------------------------------------------------------
(* CompanySignals                                                          *)

UpperCase ==
    {"A", "B", "C", "D", "E", "F", "G", "H", "I", "J", "K", "L", "M",
     "N", "O", "P", "Q", "R", "S", "T", "U", "V", "W", "X", "Y", "Z"}

FlagChar(c) == c \in UpperCase \cup {"!", "?"}

\* The pattern without its '+': a run of at most one character.
RunEnd_single(s, j) == IF j <= Len(s) /\ FlagChar(s[j]) THEN j + 1 ELSE j

\* The end of the run [A-Z!?]* starting at index j: the first index that is not
\* in the class (Len(s) + 1 when the run reaches the end).
RECURSIVE RunEnd(_, _)
RunEnd(s, j) == IF j <= Len(s) /\ FlagChar(s[j]) THEN RunEnd(s, j + 1) ELSE j

\* re.findall(r'\[([A-Z!?]+)\]', s) scanning from index i
RECURSIVE findall(_, _)
findall(s, i) ==
    IF i > Len(s) THEN <<>>
    ELSE IF s[i] = "["
         THEN LET j == RunEnd(s, i + 1)
              IN  IF j > i + 1 /\ j <= Len(s) /\ s[j] = "]"
                  THEN <<SubSeq(s, i + 1, j - 1)>> \o findall(s, j + 1)
                  ELSE findall(s, i + 1)
         ELSE findall(s, i + 1)

_parse_flags(flags_str) ==
    IF ~Truthy(flags_str) \/ isna(flags_str) THEN <<>>
    ELSE findall(str(flags_str), 1)

\* BaseScanner.get_flags_list(row), on the text that self.get_flags(row) returned
get_flags_list(flags_str) == findall(flags_str, 1)

\* CompanySignals(ticker)
NewCompanySignals(ticker) == [ticker |-> ticker, rynek |-> PyNone, appearances |-> <<>>]

HasModel(apps, model_name) == \E i \in DOMAIN apps : apps[i].model_name = model_name

ModelIndex(apps, model_name) == CHOOSE i \in DOMAIN apps : apps[i].model_name = model_name

DictSet_setdefault(apps, entry) ==
    IF HasModel(apps, entry.model_name) THEN apps ELSE Append(apps, entry)

\* self.appearances[model_name] = {...}: a dict keeps the position of a key it
\* already holds and appends a new one.
DictSet(apps, entry) ==
    IF HasModel(apps, entry.model_name)
    THEN [apps EXCEPT ![ModelIndex(apps, entry.model_name)] = entry]
    ELSE Append(apps, entry)

add_appearance_stale_list(self, model_name, rank, score, flags, rynek) ==
    [self EXCEPT
        !.appearances = DictSet(@, [model_name |-> model_name, rank |-> rank,
                                    score |-> score, flags |-> flags,
                                    flags_list |->
                                        IF HasModel(@, model_name)
                                        THEN @[ModelIndex(@, model_name)].flags_list
                                        ELSE _parse_flags(flags)]),
        !.rynek = IF Truthy(rynek) /\ ~Truthy(@) THEN rynek ELSE @]

add_appearance(self, model_name, rank, score, flags, rynek) ==
    [self EXCEPT
        !.appearances = DictSet(@, [model_name |-> model_name, rank |-> rank,
                                    score |-> score, flags |-> flags,
                                    flags_list |-> _parse_flags(flags)]),
        !.rynek = IF Truthy(rynek) /\ ~Truthy(@) THEN rynek ELSE @]

coverage(self) == Len(self.appearances)

RankPoints_exclusive(rank) ==
    IF rank < 5 THEN RankPointsTop5
    ELSE IF rank < 10 THEN RankPointsTop10
    ELSE IF rank < 20 THEN RankPointsTop20
    ELSE 0

RankPoints(rank) ==
    IF rank <= 5 THEN RankPointsTop5
    ELSE IF rank <= 10 THEN RankPointsTop10
    ELSE IF rank <= 20 THEN RankPointsTop20
    ELSE 0

RECURSIVE SumRankPoints(_)
SumRankPoints(apps) ==
    IF apps = <<>> THEN 0 ELSE RankPoints(Head(apps).rank) + SumRankPoints(Tail(apps))

elite_score_assign(self) ==
    IF self.appearances = <<>> THEN 0
    ELSE RankPoints(self.appearances[Len(self.appearances)].rank)
elite_score(self) == SumRankPoints(self.appearances)

top5_count(self) == Cardinality({i \in DOMAIN self.appearances : self.appearances[i].rank <= 5})

\* The count of the ranks 6 to 10 only.
top10_count_exclusive(self) ==
    Cardinality({i \in DOMAIN self.appearances :
                    self.appearances[i].rank > 5 /\ self.appearances[i].rank <= 10})

top10_count(self) == Cardinality({i \in DOMAIN self.appearances : self.appearances[i].rank <= 10})

RECURSIVE ExtendAll(_)
ExtendAll(apps) ==
    IF apps = <<>> THEN <<>> ELSE Head(apps).flags_list \o ExtendAll(Tail(apps))

all_flags(self) == ExtendAll(self.appearances)

unique_flags(self) == Range(all_flags(self))

IsWarning(f) == f \in {<<"!">>, <<"?">>}

warning_count(self) ==
    LET fl == all_flags(self) IN Cardinality({i \in DOMAIN fl : IsWarning(fl[i])})

positive_flag_count_unique(self) ==
    Cardinality({f \in unique_flags(self) : ~IsWarning(f)})

positive_flag_count(self) ==
    LET fl == all_flags(self) IN Cardinality({i \in DOMAIN fl : ~IsWarning(fl[i])})

\* get_flag_density(), in units of 1/Scale
get_flag_density(self) ==
    IF coverage(self) = 0 THEN 0
    ELSE (positive_flag_count(self) * Scale) \div coverage(self)

\* flag_bonus = self.get_flag_density() * 3, in units of 1/Scale
FlagBonus(self) == get_flag_density(self) * 3

RECURSIVE DictAdd_assign(_, _, _)
DictAdd_assign(d, cat, w) ==
    IF d = <<>> THEN <<[cat |-> cat, val |-> w]>>
    ELSE IF Head(d).cat = cat THEN <<[cat |-> cat, val |-> w]>> \o Tail(d)
    ELSE <<Head(d)>> \o DictAdd_assign(Tail(d), cat, w)

\* An ordered dict as a sequence of [cat, val]: d[cat] += w inserts cat at the end
\* when it is new (defaultdict(float)) and keeps its position otherwise.
RECURSIVE DictAdd(_, _, _)
DictAdd(d, cat, w) ==
    IF d = <<>> THEN <<[cat |-> cat, val |-> w]>>
    ELSE IF Head(d).cat = cat THEN <<[cat |-> cat, val |-> Head(d).val + w]>> \o Tail(d)
    ELSE <<Head(d)>> \o DictAdd(Tail(d), cat, w)

RECURSIVE StrengthOver(_, _)
StrengthOver(flags, acc) ==
    IF flags = <<>> THEN acc
    ELSE StrengthOver(Tail(flags),
            IF FlagMapped(Head(flags))
            THEN DictAdd(acc, FLAG_TO_CATEGORY(Head(flags)),
                         CATEGORY_WEIGHTS(FLAG_TO_CATEGORY(Head(flags))))
            ELSE acc)

\* get_category_strength(): values in tenths, keys in order of first occurrence
get_category_strength(self) == StrengthOver(all_flags(self), <<>>)

\* strength.pop(cat, None)
DictPop(d, cat) == SelectSeq(d, LAMBDA e : e.cat # cat)

\* The last item whose value is maximal.
FirstMax_last(d) ==
    LET i == CHOOSE k \in DOMAIN d :
                /\ \A j \in DOMAIN d : d[j].val <= d[k].val
                /\ \A j \in (k + 1)..Len(d) : d[j].val < d[k].val
    IN  d[i]

\* max(items, key=value): the first item whose value is maximal
FirstMax(d) ==
    LET i == CHOOSE k \in DOMAIN d :
                /\ \A j \in DOMAIN d : d[j].val <= d[k].val
                /\ \A j \in 1..(k - 1) : d[j].val < d[k].val
    IN  d[i]

get_dominant_category_with_warning(self) ==
    LET strength == get_category_strength(self)
    IN  IF strength = <<>> THEN [cat |-> "unknown", val |-> 0]
        ELSE FirstMax(strength)

get_dominant_category(self) ==
    LET strength == get_category_strength(self)
        popped == DictPop(strength, "warning")
    IN  IF strength = <<>> THEN [cat |-> "unknown", val |-> 0]
        ELSE IF popped = <<>> THEN [cat |-> "unknown", val |-> 0]
        ELSE FirstMax(popped)

calculate_signal_strength_uncapped(self) ==
    elite_score(self) * Scale + FlagBonus(self) + (coverage(self) * 3 * Scale) \div 2
        - warning_count(self) * 2 * Scale
        + (get_dominant_category(self).val * Scale) \div 20

\* calculate_signal_strength(), in units of 1/Scale
calculate_signal_strength(self) ==
    LET base == elite_score(self) * Scale
        flag_bonus == FlagBonus(self)
        coverage_bonus == (Min(coverage(self), CoverageCap) * 3 * Scale) \div 2
        warning_penalty == warning_count(self) * 2 * Scale
        dominant_strength == get_dominant_category(self).val
        consistency_bonus == (Min(dominant_strength, ConsistencyCap * 10) * Scale) \div 20
    IN  base + flag_bonus + coverage_bonus - warning_penalty + consistency_bonus

----------------------------------------------------------------------------
(* Text produced by f-strings: a sequence of tokens                        *)

Lit(text) == [t |-> "lit", s |-> text, c |-> <<>>, n |-> 0]
Chars(chars) == [t |-> "chars", s |-> "", c |-> chars, n |-> 0]
Num(i) == [t |-> "num", s |-> "", c |-> <<>>, n |-> i]

\* s[:n]
Prefix(chars, n) == SubSeq(chars, 1, Min(n, Len(chars)))

\* sep.join(parts), each part a token sequence
RECURSIVE Join(_, _)
Join(sep, parts) ==
    IF parts = <<>> THEN <<>>
    ELSE IF Len(parts) = 1 THEN Head(parts)
    ELSE Head(parts) \o <<sep>> \o Join(sep, Tail(parts))

\* sorted(items, key): Python's sort is stable; items are records with a field key.
RECURSIVE InsertByKey(_, _)
InsertByKey(sorted, e) ==
    IF sorted = <<>> THEN <<e>>
    ELSE IF Head(sorted).key <= e.key THEN <<Head(sorted)>> \o InsertByKey(Tail(sorted), e)
    ELSE <<e>> \o sorted

RECURSIVE SortedByKey(_)
SortedByKey(items) ==
    IF items = <<>> THEN <<>>
    ELSE InsertByKey(SortedByKey(SubSeq(items, 1, Len(items) - 1)), items[Len(items)])

category_names(cat) ==
    CASE cat = "quality" -> "QUALITY"
      [] cat = "growth" -> "GROWTH"
      [] cat = "value" -> "VALUE"
      [] cat = "momentum" -> "MOMENTUM"
      [] cat = "safety" -> "DEFENSIVE"
      [] cat = "cash" -> "CASH KING"
      [] cat = "turnaround" -> "TURNAROUND"
      [] cat = "unknown" -> "MIXED"
      [] OTHER -> "MIXED"

flag_desc(cat) ==
    CASE cat = "quality" -> "wysoka jakosc"
      [] cat = "growth" -> "wzrost"
      [] cat = "value" -> "niska wycena"
      [] cat = "momentum" -> "momentum"
      [] cat = "safety" -> "bezpieczenstwo"
      [] cat = "cash" -> "cash flow"
      [] cat = "turnaround" -> "sygnaly odbicia"
      [] OTHER -> ""

InFlagDesc(cat) == cat \in Categories \ {"warning"}

\* The tiers with the thresholds themselves left to the tier below.
Conviction_exclusive(signal_str) ==
    IF signal_str > ThesisStrong * Scale THEN "Strong"
    ELSE IF signal_str > ThesisMedium * Scale THEN "Medium"
    ELSE "Weak"

\* The tiers with the second test made first.
Conviction_medium_first(signal_str) ==
    IF signal_str >= ThesisMedium * Scale THEN "Medium"
    ELSE IF signal_str >= ThesisStrong * Scale THEN "Strong"
    ELSE "Weak"

Conviction(signal_str) ==
    IF signal_str >= ThesisStrong * Scale THEN "Strong"
    ELSE IF signal_str >= ThesisMedium * Scale THEN "Medium"
    ELSE "Weak"

\* sorted(cat_strength.items(), key=lambda x: -x[1])[:2]
TopTwoCategories(self) ==
    LET cat_strength == DictPop(get_category_strength(self), "warning")
        keyed == [i \in DOMAIN cat_strength |->
                    [key |-> -cat_strength[i].val, cat |-> cat_strength[i].cat]]
        sorted_cats == SortedByKey(keyed)
    IN  SubSeq(sorted_cats, 1, Min(2, Len(sorted_cats)))

\* The details with the warning clause put first.
ThesisDetails_warning_first(self) ==
    LET top5_models == SelectSeq(self.appearances, LAMBDA a : a.rank <= 5)
        top == IF top5_count(self) >= 2
               THEN << <<Lit("TOP5 w "), Num(top5_count(self)), Lit(" modelach")>> >>
               ELSE IF top5_count(self) = 1
               THEN << <<Lit("TOP5: "), Chars(Prefix(top5_models[1].model_name, TopModelChars))>> >>
               ELSE <<>>
        sorted_cats == TopTwoCategories(self)
        described == SelectSeq(sorted_cats, LAMBDA e : InFlagDesc(e.cat))
        cats == [i \in DOMAIN described |-> <<Lit(flag_desc(described[i].cat))>>]
        warn == IF warning_count(self) > 0
                THEN << <<Lit("(!) "), Num(warning_count(self)), Lit("x warning")>> >>
                ELSE <<>>
    IN  warn \o top \o cats

ThesisDetails(self) ==
    LET top5_models == SelectSeq(self.appearances, LAMBDA a : a.rank <= 5)
        top == IF top5_count(self) >= 2
               THEN << <<Lit("TOP5 w "), Num(top5_count(self)), Lit(" modelach")>> >>
               ELSE IF top5_count(self) = 1
               THEN << <<Lit("TOP5: "), Chars(Prefix(top5_models[1].model_name, TopModelChars))>> >>
               ELSE <<>>
        sorted_cats == TopTwoCategories(self)
        described == SelectSeq(sorted_cats, LAMBDA e : InFlagDesc(e.cat))
        cats == [i \in DOMAIN described |-> <<Lit(flag_desc(described[i].cat))>>]
        warn == IF warning_count(self) > 0
                THEN << <<Lit("(!) "), Num(warning_count(self)), Lit("x warning")>> >>
                ELSE <<>>
    IN  top \o cats \o warn

\* The thesis without the early return for an accumulator with no appearance.
generate_thesis_no_sentinel(self) ==
    LET dominant_cat == get_dominant_category(self).cat
        conviction == Conviction(calculate_signal_strength(self))
        details == ThesisDetails(self)
        thesis == <<Lit(category_names(dominant_cat)), Lit(" ("), Lit(conviction), Lit(")")>>
    IN  IF details # <<>> THEN thesis \o <<Lit(": ")>> \o Join(Lit(", "), details)
        ELSE thesis

generate_thesis(self) ==
    IF coverage(self) = 0 THEN <<Lit("Brak danych")>>
    ELSE LET dominant_cat == get_dominant_category(self).cat
             conviction == Conviction(calculate_signal_strength(self))
             details == ThesisDetails(self)
             thesis == <<Lit(category_names(dominant_cat)), Lit(" ("), Lit(conviction), Lit(")")>>
         IN  IF details # <<>> THEN thesis \o <<Lit(": ")>> \o Join(Lit(", "), details)
             ELSE thesis

get_models_summary(self) ==
    IF self.appearances = <<>> THEN <<>>
    ELSE LET keyed == [i \in DOMAIN self.appearances |->
                          [key |-> self.appearances[i].rank,
                           model |-> self.appearances[i].model_name]]
             ordered == SortedByKey(keyed)
             summaries == [i \in DOMAIN ordered |->
                              <<Chars(Prefix(ordered[i].model, ShortModelChars)),
                                Lit(":#"), Num(ordered[i].key)>>]
         IN  Join(Lit(" | "), summaries)


\* Every property and method of CompanySignals that reads the accumulator, each
\* computed from self.appearances at the time of the call.
ComputeAll(self) ==
    [coverage |-> coverage(self),
     elite_score |-> elite_score(self),
     top5_count |-> top5_count(self),
     top10_count |-> top10_count(self),
     all_flags |-> all_flags(self),
     unique_flags |-> unique_flags(self),
     warning_count |-> warning_count(self),
     positive_flag_count |-> positive_flag_count(self),
     flag_density |-> get_flag_density(self),
     category_strength |-> get_category_strength(self),
     dominant_category |-> get_dominant_category(self),
     signal_strength |-> calculate_signal_strength(self),
     thesis |-> generate_thesis(self),
     models_summary |-> get_models_summary(self)]

----------------------------------------------------------------------------
(* aggregate_signals                                                       *)

NoCall ==
    [ticker |-> PyNone, model_name |-> <<>>, rank |-> 0, score |-> PyNone,
     flags |-> PyNone, rynek |-> PyNone]

HasTicker(comps, ticker) == \E i \in DOMAIN comps : comps[i].ticker = ticker

TickerIndex(comps, ticker) == CHOOSE i \in DOMAIN comps : comps[i].ticker = ticker

\* int(v) and float(v) succeed on numbers (float('nan') included); int(None),
\* int(nan), float(None) raise.
IntOk(v) == v.k \in {"int", "float"}
IntOf(v) == IF v.k = "float" THEN v.n \div 10 ELSE v.n
FloatOk(v) == v.k \in {"int", "float", "NaN"}
FloatOf(v) == IF v.k = "int" THEN PyFloat(v.n * 10) ELSE v

\* if not ticker or pd.isna(ticker): continue
SkipTicker_na_only(ticker) == isna(ticker)
SkipTicker(ticker) == ~Truthy(ticker) \/ isna(ticker)

\* The iteration with a new CompanySignals made for every row, listed or not.
process_row_recreate(comps, model_name, row) ==
    LET ticker == RowGet(row, "Ticker", PyNone)
    IN  IF SkipTicker(ticker)
        THEN [companies |-> comps, call |-> NoCall, raised |-> FALSE]
        ELSE LET created == IF HasTicker(comps, ticker.s)
                            THEN [comps EXCEPT ![TickerIndex(comps, ticker.s)] =
                                     NewCompanySignals(ticker.s)]
                            ELSE Append(comps, NewCompanySignals(ticker.s))
                 i == TickerIndex(created, ticker.s)
                 rank == RowGet(row, "Rank", PyInt(DefaultRank))
                 score == RowGet(row, "Total", PyInt(0))
                 flags == PyStr(str(RowGet(row, "Flags", PyStr(<<>>))))
                 rynek == RowGet(row, "Rynek", PyNone)
             IN  IF ~IntOk(rank) \/ ~FloatOk(score)
                 THEN [companies |-> created, call |-> NoCall, raised |-> TRUE]
                 ELSE [companies |->
                          [created EXCEPT ![i] =
                              add_appearance(@, model_name, IntOf(rank), FloatOf(score),
                                             flags, rynek)],
                       call |-> [ticker |-> ticker, model_name |-> model_name,
                                 rank |-> IntOf(rank), score |-> FloatOf(score),
                                 flags |-> flags, rynek |-> rynek],
                       raised |-> FALSE]

\* One iteration of the inner loop of aggregate_signals: the new mapping, the
\* add_appearance call it made (NoCall when the row was skipped or the call was
\* never reached) and whether an exception left the loop.
process_row(comps, model_name, row) ==
    LET ticker == RowGet(row, "Ticker", PyNone)
    IN  IF SkipTicker(ticker)
        THEN [companies |-> comps, call |-> NoCall, raised |-> FALSE]
        ELSE LET created == IF HasTicker(comps, ticker.s) THEN comps
                            ELSE Append(comps, NewCompanySignals(ticker.s))
                 i == TickerIndex(created, ticker.s)
                 rank == RowGet(row, "Rank", PyInt(DefaultRank))
                 score == RowGet(row, "Total", PyInt(0))
                 flags == PyStr(str(RowGet(row, "Flags", PyStr(<<>>))))
                 rynek == RowGet(row, "Rynek", PyNone)
             IN  IF ~IntOk(rank) \/ ~FloatOk(score)
                 THEN [companies |-> created, call |-> NoCall, raised |-> TRUE]
                 ELSE [companies |->
                          [created EXCEPT ![i] =
                              add_appearance(@, model_name, IntOf(rank), FloatOf(score),
                                             flags, rynek)],
                       call |-> [ticker |-> ticker, model_name |-> model_name,
                                 rank |-> IntOf(rank), score |-> FloatOf(score),
                                 flags |-> flags, rynek |-> rynek],
                       raised |-> FALSE]

\* The loops of aggregate_signals as a function of the whole input: the mapping
\* returned, or the exception.
RECURSIVE AggregateRows(_, _, _)
AggregateRows(acc, model_name, rows) ==
    IF rows = <<>> \/ acc.raised THEN acc
    ELSE LET r == process_row(acc.companies, model_name, Head(rows))
         IN  AggregateRows([companies |-> r.companies, raised |-> r.raised],
                           model_name, Tail(rows))

RECURSIVE AggregateTables(_, _)
AggregateTables(acc, tables) ==
    IF tables = <<>> \/ acc.raised THEN acc
    ELSE AggregateTables(AggregateRows(acc, Head(tables).model_name, Head(tables).rows),
                         Tail(tables))

aggregate_signals(tables) == AggregateTables([companies |-> <<>>, raised |-> FALSE], tables)

RECURSIVE TotalRows(_)
TotalRows(tables) ==
    IF tables = <<>> THEN 0 ELSE Len(Head(tables).rows) + TotalRows(Tail(tables))

NoReport == [kind |-> "none", status |-> "none", rows |-> <<>>]

InitAggregate ==
    /\ pc = "aggregate"
    /\ results = <<>>
    /\ companies = <<>>
    /\ call = NoCall
    /\ report = NoReport

\* for model_name, df in results.items(): the next table of the input
NextTable(names) ==
    /\ pc = "aggregate"
    /\ Len(results) < MaxTables
    /\ \E model_name \in names :
          /\ \A i \in DOMAIN results : results[i].model_name # model_name
          /\ results' = Append(results, [model_name |-> model_name, rows |-> <<>>])
    /\ UNCHANGED <<pc, companies, call, report>>

\* for _, row in df.iterrows(): the next row of the current table
IterRow(rows) ==
    /\ pc = "aggregate"
    /\ results # <<>>
    /\ TotalRows(results) < MaxRows
    /\ \E row \in rows :
          LET cur == results[Len(results)]
              r == process_row(companies, cur.model_name, row)
          IN  /\ results' = [results EXCEPT ![Len(results)].rows = Append(@, row)]
              /\ companies' = r.companies
              /\ call' = r.call
              /\ pc' = IF r.raised THEN "raised" ELSE pc
    /\ UNCHANGED report

\* return companies
Return ==
    /\ pc = "aggregate"
    /\ pc' = "returned"
    /\ call' = NoCall
    /\ UNCHANGED <<results, companies, report>>

----------------------------------------------------------------------------
(* Report builders                                                         *)

Alphabet ==
    <<"A", "B", "C", "D", "E", "F", "G", "H", "I", "J", "K", "L", "M",
      "N", "O", "P", "Q", "R", "S", "T", "U", "V", "W", "X", "Y", "Z">>

\* ord(c) for the characters a parsed flag can hold
Ord(c) ==
    IF c = "!" THEN 33
    ELSE IF c = "?" THEN 63
    ELSE 64 + (CHOOSE i \in DOMAIN Alphabet : Alphabet[i] = c)

\* a < b for Python strings: lexicographic by code point
RECURSIVE StrLess(_, _)
StrLess(a, b) ==
    IF b = <<>> THEN FALSE
    ELSE IF a = <<>> THEN TRUE
    ELSE IF Head(a) = Head(b) THEN StrLess(Tail(a), Tail(b))
    ELSE Ord(Head(a)) < Ord(Head(b))

\* sorted(a set of strings)
RECURSIVE SortedStrings(_)
SortedStrings(S) ==
    IF S = {} THEN <<>>
    ELSE LET least == CHOOSE x \in S : \A y \in S \ {x} : StrLess(x, y)
         IN  <<least>> \o SortedStrings(S \ {least})

\* ''.join(f'[{f}]' for f in sorted(signals.unique_flags))
UniqueFlagsText(self) ==
    LET sorted == SortedStrings(unique_flags(self))
    IN  Join(Lit(""), [i \in DOMAIN sorted |-> <<Lit("["), Chars(sorted[i]), Lit("]")>>])

\* round(x, 1) of a value in units of 1/Scale, in tenths: to the nearest tenth,
\* an exact half to the even tenth.
Round1(x) ==
    LET unit == Scale \div 10
        q == x \div unit
        r == x % unit
    IN  IF 2 * r > unit THEN q + 1
        ELSE IF 2 * r = unit THEN q + (q % 2)
        ELSE q

\* signals.rynek or ''
RynekOrEmpty(self) == IF Truthy(self.rynek) THEN self.rynek ELSE PyStr(<<>>)

ConsensusRow(self) ==
    [Ticker |-> self.ticker,
     Rynek |-> RynekOrEmpty(self),
     Signal_Strength |-> Round1(calculate_signal_strength(self)),
     Coverage |-> <<Num(coverage(self)), Lit("/"), Num(NumModelThemes)>>,
     Elite_Score |-> elite_score(self),
     TOP5_Count |-> top5_count(self),
     TOP10_Count |-> top10_count(self),
     Positive_Flags |-> positive_flag_count(self),
     Warnings |-> warning_count(self),
     Unique_Flags |-> UniqueFlagsText(self),
     Investment_Thesis |-> generate_thesis(self),
     Models |-> get_models_summary(self)]

\* df.insert(0, 'Rank', range(1, len(df) + 1))
WithRank(rows) ==
    [i \in DOMAIN rows |->
        [Rank |-> i, Ticker |-> rows[i].Ticker, Rynek |-> rows[i].Rynek,
         Signal_Strength |-> rows[i].Signal_Strength, Coverage |-> rows[i].Coverage,
         Elite_Score |-> rows[i].Elite_Score, TOP5_Count |-> rows[i].TOP5_Count,
         TOP10_Count |-> rows[i].TOP10_Count, Positive_Flags |-> rows[i].Positive_Flags,
         Warnings |-> rows[i].Warnings, Unique_Flags |-> rows[i].Unique_Flags,
         Investment_Thesis |-> rows[i].Investment_Thesis, Models |-> rows[i].Models]]

\* The orderings of 1..n, as sequences: n is put at every position of every
\* ordering of 1..(n - 1).
RECURSIVE Orderings(_)
Orderings(n) ==
    IF n = 0 THEN {<<>>}
    ELSE {SubSeq(p, 1, k - 1) \o <<n>> \o SubSeq(p, k, n - 1) :
             p \in Orderings(n - 1), k \in 1..n}

Reordered(entries, p) == [i \in DOMAIN entries |-> entries[p[i]]]

\* df.sort_values('Signal_Strength', ascending=False): the default kind is
\* 'quicksort', which is not stable, so rows with equal keys may come out in any
\* order; every ordering with non-increasing keys is a possible outcome.
SortValuesDescending(rows) ==
    {Reordered(rows, p) : p \in
        {q \in Orderings(Len(rows)) :
            \A i \in 1..(Len(rows) - 1) :
                rows[q[i]].Signal_Strength >= rows[q[i + 1]].Signal_Strength}}

\* The possible results of create_consensus_df(companies).  pd.DataFrame([]) has
\* no columns, so sort_values('Signal_Strength') raises KeyError on no rows.
create_consensus_df(comps) ==
    LET rows == [i \in DOMAIN comps |-> ConsensusRow(comps[i])]
    IN  IF rows = <<>>
        THEN {[kind |-> "consensus", status |-> "KeyError", rows |-> <<>>]}
        ELSE {[kind |-> "consensus", status |-> "ok", rows |-> WithRank(sorted)] :
                 sorted \in SortValuesDescending(rows)}

SortedBySignalDescending_unsorted(comps) == comps

\* sorted(items, key=signal strength, reverse=True): stable, equal keys keep
\* their order
SortedBySignalDescending(comps) ==
    LET keyed == [i \in DOMAIN comps |->
                    [key |-> -calculate_signal_strength(comps[i]), signals |-> comps[i]]]
        ordered == SortedByKey(keyed)
    IN  [i \in DOMAIN ordered |-> ordered[i].signals]

HeatmapFlags ==
    << <<"Q">>, <<"G">>, <<"V">>, <<"M">>, <<"A">>, <<"R">>, <<"S">>, <<"B">>,
       <<"L">>, <<"C">>, <<"D">>, <<"T">>, <<"!">>, <<"?">> >>

FlagCount(self, flag) ==
    LET fl == all_flags(self) IN Cardinality({i \in DOMAIN fl : fl[i] = flag})

create_flag_heatmap(comps, top_n) ==
    LET ordered == SortedBySignalDescending(comps)
        sorted_companies == SubSeq(ordered, 1, Min(top_n, Len(ordered)))
    IN  [kind |-> "heatmap", status |-> "ok",
         rows |-> [i \in DOMAIN sorted_companies |->
                     [Ticker |-> sorted_companies[i].ticker,
                      Counts |-> [k \in DOMAIN HeatmapFlags |->
                                    FlagCount(sorted_companies[i], HeatmapFlags[k])],
                      Total_Flags |-> positive_flag_count(sorted_companies[i])]]]

BestOfCategories ==
    << [name |-> "QUALITY", cat |-> "quality"],
       [name |-> "GROWTH", cat |-> "growth"],
       [name |-> "VALUE", cat |-> "value"],
       [name |-> "MOMENTUM", cat |-> "momentum"],
       [name |-> "SAFETY", cat |-> "safety"],
       [name |-> "CASH", cat |-> "cash"],
       [name |-> "TURNAROUND", cat |-> "turnaround"] >>

BestOfSize == 3

\* strength.get(cat, 0), in tenths
DictGet(d, cat) ==
    IF \E i \in DOMAIN d : d[i].cat = cat
    THEN d[CHOOSE i \in DOMAIN d : d[i].cat = cat].val
    ELSE 0

BestOfCategory_unfiltered(comps, category) ==
    LET scored == [i \in DOMAIN comps |->
                     [key |-> -DictGet(get_category_strength(comps[i]), category.cat),
                      signals |-> comps[i]]]
        cat_scores == SortedByKey(scored)
        top == SubSeq(cat_scores, 1, Min(BestOfSize, Len(cat_scores)))
    IN  [i \in DOMAIN top |->
            [Category |-> category.name,
             Rank |-> i,
             Ticker |-> top[i].signals.ticker,
             Category_Score |-> -top[i].key,
             Signal_Strength |-> Round1(calculate_signal_strength(top[i].signals)),
             Flags |-> UniqueFlagsText(top[i].signals)]]

BestOfCategory(comps, category) ==
    LET scored == [i \in DOMAIN comps |->
                     [key |-> -DictGet(get_category_strength(comps[i]), category.cat),
                      signals |-> comps[i]]]
        cat_scores == SortedByKey(SelectSeq(scored, LAMBDA e : -e.key > 0))
        top == SubSeq(cat_scores, 1, Min(BestOfSize, Len(cat_scores)))
    IN  [i \in DOMAIN top |->
            [Category |-> category.name,
             Rank |-> i,
             Ticker |-> top[i].signals.ticker,
             Category_Score |-> -top[i].key,
             Signal_Strength |-> Round1(calculate_signal_strength(top[i].signals)),
             Flags |-> UniqueFlagsText(top[i].signals)]]

RECURSIVE BestOfRows(_, _)
BestOfRows(comps, categories) ==
    IF categories = <<>> THEN <<>>
    ELSE BestOfCategory(comps, Head(categories)) \o BestOfRows(comps, Tail(categories))

create_best_of(comps) ==
    [kind |-> "best_of", status |-> "ok", rows |-> BestOfRows(comps, BestOfCategories)]

ProfileRowsOf_by_rank(self) ==
    LET keyed == [i \in DOMAIN self.appearances |->
                    [key |-> self.appearances[i].rank, app |-> self.appearances[i]]]
        ordered == SortedByKey(keyed)
    IN  [i \in DOMAIN ordered |->
            [Ticker |-> self.ticker,
             Model |-> ordered[i].app.model_name,
             Rank_in_Model |-> ordered[i].app.rank,
             Score_in_Model |-> ordered[i].app.score,
             Flags_in_Model |-> ordered[i].app.flags,
             Signal_Strength |-> Round1(calculate_signal_strength(self))]]

ProfileRowsOf(self) ==
    [i \in DOMAIN self.appearances |->
        [Ticker |-> self.ticker,
         Model |-> self.appearances[i].model_name,
         Rank_in_Model |-> self.appearances[i].rank,
         Score_in_Model |-> self.appearances[i].score,
         Flags_in_Model |-> self.appearances[i].flags,
         Signal_Strength |-> Round1(calculate_signal_strength(self))]]

RECURSIVE ProfileRows(_)
ProfileRows(ordered) ==
    IF ordered = <<>> THEN <<>>
    ELSE ProfileRowsOf(Head(ordered)) \o ProfileRows(Tail(ordered))

create_profiles(comps) ==
    [kind |-> "profiles", status |-> "ok",
     rows |-> ProfileRows(SortedBySignalDescending(comps))]

CreateConsensus ==
    /\ pc = "returned"
    /\ report' \in create_consensus_df(companies)
    /\ UNCHANGED <<pc, results, companies, call>>

CreateFlagHeatmap(top_ns) ==
    /\ pc = "returned"
    /\ \E top_n \in top_ns : report' = create_flag_heatmap(companies, top_n)
    /\ UNCHANGED <<pc, results, companies, call>>

CreateBestOf ==
    /\ pc = "returned"
    /\ report' = create_best_of(companies)
    /\ UNCHANGED <<pc, results, companies, call>>

CreateProfiles ==
    /\ pc = "returned"
    /\ report' = create_profiles(companies)
    /\ UNCHANGED <<pc, results, companies, call>>

----------------------------------------------------------------------------
(* Inputs                                                                  *)

QualityGrowth == <<"Q", "u", "a", "l", "i", "t", "y", " ", "G", "r", "o", "w", "t", "h">>
RevenueMomentum == <<"R", "e", "v", "e", "n", "u", "e", " ", "M", "o", "m", "e", "n", "t", "u", "m", " ", "&", " ", "S", "a", "f", "e", "t", "y">>
Turnaround == <<"T", "u", "r", "n", "a", "r", "o", "u", "n", "d">>
CashQuality == <<"C", "a", "s", "h", " ", "Q", "u", "a", "l", "i", "t", "y", " ", "&", " ", "B", "a", "l", "a", "n", "c", "e", " ", "S", "h", "e", "e", "t">>
QualityMomentum == <<"Q", "u", "a", "l", "i", "t", "y", " ", "M", "o", "m", "e", "n", "t", "u", "m">>
CashQualityShort == <<"C", "a", "s", "h", " ", "Q", "u", "a", "l", "i", "t", "y", " ", "&", " ", "B", "a", "l", "a", "n", "c", "e", " ", "S", "h", "e">>
ValuationCompression == <<"V", "a", "l", "u", "a", "t", "i", "o", "n", " ", "C", "o", "m", "p", "r", "e", "s", "s", "i", "o", "n">>

PKN == <<"P", "K", "N">>
CDR == <<"C", "D", "R">>
KGH == <<"K", "G", "H">>
ALE == <<"A", "L", "E">>
LPP == <<"L", "P", "P">>
GPW == <<"G", "P", "W">>
NC == <<"N", "C">>

Row(ticker, rank, total, flags, rynek) ==
    [Ticker |-> ticker, Rank |-> rank, Total |-> total, Flags |-> flags, Rynek |-> rynek]

\* Rows of the scanner tables read by load_results: a cell is a value, NaN (an
\* empty cell of the sheet) or absent (the sheet has no such column).  Rank and
\* Total are numbers when present.
RowsAggregate ==
    { Row(PyStr(PKN), PyInt(3), PyFloat(875), PyStr(<<"[", "G", "]">>), PyStr(GPW)),
      Row(PyStr(PKN), PyInt(8), Absent, PyStr(<<"[", "C", "]", "[", "!", "]">>), PyStr(NC)),
      Row(PyStr(PKN), Absent, PyFloat(120), Absent, Absent),
      Row(PyStr(PKN), PyInt(15), PyFloat(403), PyStr(<<"[", "Q", "]", "[", "g", "]", "x", "[", "V">>), PyStr(<<>>)),
      Row(PyStr(PKN), PyInt(25), PyFloat(0), NaN, NaN),
      Row(PyStr(CDR), PyInt(3), PyFloat(990), PyStr(<<"[", "G", "]">>), PyStr(NC)),
      Row(PyStr(CDR), PyInt(8), PyFloat(510), PyStr(<<"[", "C", "]">>), NaN),
      Row(PyStr(<<>>), PyInt(1), PyFloat(1000), PyStr(<<"[", "Q", "]">>), PyStr(GPW)),
      Row(NaN, PyInt(2), PyFloat(900), PyStr(<<"[", "Q", "]">>), PyStr(GPW)) }

ModelNamesAggregate == {QualityGrowth, RevenueMomentum}

NextAggregate ==
    \/ NextTable(ModelNamesAggregate)
    \/ IterRow(RowsAggregate)
    \/ Return

SpecAggregate == InitAggregate /\ [][NextAggregate]_vars

\* Rows of the pipeline runs: three companies, equal and different evidence, and
\* a row without company id.
RowsPipeline ==
    { Row(PyStr(PKN), PyInt(3), PyFloat(875), PyStr(<<"[", "G", "]">>), PyStr(GPW)),
      Row(PyStr(PKN), PyInt(25), PyFloat(120), PyStr(<<>>), PyStr(GPW)),
      Row(PyStr(CDR), PyInt(3), PyFloat(990), PyStr(<<"[", "G", "]">>), PyStr(NC)),
      Row(PyStr(CDR), PyInt(8), PyFloat(510), PyStr(<<"[", "C", "]", "[", "!", "]">>), PyStr(NC)),
      Row(PyStr(KGH), PyInt(3), PyFloat(700), PyStr(<<"[", "G", "]">>), Absent),
      Row(PyStr(KGH), PyInt(12), PyFloat(300), PyStr(<<"[", "Q", "]">>), Absent),
      Row(PyStr(<<>>), PyInt(1), PyFloat(1000), PyStr(<<"[", "Q", "]">>), PyStr(GPW)) }

TopNs == {1, 2, 30}

Init == InitAggregate

Next ==
    \/ NextTable(ModelNamesAggregate)
    \/ IterRow(RowsPipeline)
    \/ Return
    \/ CreateConsensus
    \/ CreateFlagHeatmap(TopNs)
    \/ CreateBestOf
    \/ CreateProfiles

Spec == Init /\ [][Next]_vars

\* The accumulator used directly: CompanySignals(ticker) and add_appearance
\* calls.  The scanner labels are the keys of MODEL_THEMES; a new label is the
\* next one of the table, a label already present may be written again.
ModelLabels ==
    <<QualityGrowth, Turnaround, RevenueMomentum, CashQuality, CashQualityShort,
      QualityMomentum, ValuationCompression>>

Evidence(rank, score, flags) == [rank |-> rank, score |-> score, flags |-> flags]

EvidencesAccumulator ==
    { Evidence(3, PyFloat(875), PyStr(<<"[", "Q", "]", "[", "G", "]">>)),
      Evidence(8, PyFloat(510), PyStr(<<"[", "Q", "]", "[", "!", "]">>)),
      Evidence(25, PyFloat(0), PyStr(<<>>)) }

SegmentsAccumulator == {PyNone, PyStr(GPW)}

InitAccumulator ==
    /\ pc = "direct"
    /\ results = <<>>
    /\ companies = <<NewCompanySignals(PKN)>>
    /\ call = NoCall
    /\ report = NoReport

\* signals.add_appearance(model_name, rank, score, flags, rynek)
AddAppearance(evidences, segments) ==
    /\ pc = "direct"
    /\ \E k \in 1..Min(coverage(companies[1]) + 1, MaxCoverage) :
       \E e \in evidences : \E rynek \in segments :
          /\ companies' = <<add_appearance(companies[1], ModelLabels[k],
                                           e.rank, e.score, e.flags, rynek)>>
          /\ call' = [ticker |-> PyStr(companies[1].ticker), model_name |-> ModelLabels[k],
                      rank |-> e.rank, score |-> e.score, flags |-> e.flags,
                      rynek |-> rynek]
    /\ UNCHANGED <<pc, results, report>>

NextAccumulator == AddAppearance(EvidencesAccumulator, SegmentsAccumulator)

SpecAccumulator == InitAccumulator /\ [][NextAccumulator]_vars

\* The accumulator filled one scanner after the other: every call writes the
\* next label of the table, up to MaxScanners labels.
AddNextAppearance(evidences, segments) ==
    /\ pc = "direct"
    /\ coverage(companies[1]) < MaxScanners
    /\ \E e \in evidences : \E rynek \in segments :
          LET model_name == ModelLabels[coverage(companies[1]) + 1]
          IN  /\ companies' = <<add_appearance(companies[1], model_name,
                                               e.rank, e.score, e.flags, rynek)>>
              /\ call' = [ticker |-> PyStr(companies[1].ticker), model_name |-> model_name,
                          rank |-> e.rank, score |-> e.score, flags |-> e.flags,
                          rynek |-> rynek]
    /\ UNCHANGED <<pc, results, report>>

\* Ranks on both sides of every step of elite_score, and the default rank
RanksOfInterest == {1, 5, 6, 10, 11, 20, 21, DefaultRank}

EvidencesRanks == {Evidence(r, PyFloat(500), PyStr(<<"[", "Q", "]">>)) : r \in RanksOfInterest}

NextRanks == AddNextAppearance(EvidencesRanks, {PyNone})

SpecRanks == InitAccumulator /\ [][NextRanks]_vars

\* Flag texts: none, one flag, two flags of one category, warnings only, flags of
\* no category, a malformed text, and a flag with a warning.
FlagTexts ==
    { <<>>,
      <<"[", "Q", "]">>,
      <<"[", "G", "]", "[", "R", "]">>,
      <<"[", "!", "]", "[", "?", "]">>,
      <<"[", "X", "]", "[", "!", "?", "]">>,
      <<"[", "V", "]", "[", "g", "]", "x", "[", "C">>,
      <<"[", "C", "]", "[", "!", "]">> }

EvidencesFlags == {Evidence(3, PyFloat(500), PyStr(text)) : text \in FlagTexts}

NextFlags == AddNextAppearance(EvidencesFlags, {PyNone})

SpecFlags == InitAccumulator /\ [][NextFlags]_vars

\* The flag parsers on every text of up to MaxTextLen characters of
\* TextAlphabet: the text is the argument of the call and the returned list is
\* kept in report.
TextAlphabet == {"[", "]", "Q", "!"}

FlagStrings == UNION {[1..n -> TextAlphabet] : n \in 0..MaxTextLen}

InitTokens ==
    /\ pc = "direct"
    /\ results = <<>>
    /\ companies = <<NewCompanySignals(PKN)>>
    /\ call \in {[NoCall EXCEPT !.flags = PyStr(text)] : text \in FlagStrings}
    /\ report = NoReport

\* signals._parse_flags(flags_str)
ParseFlags ==
    /\ pc = "direct"
    /\ report' = [kind |-> "_parse_flags", status |-> "ok",
                  rows |-> _parse_flags(call.flags)]
    /\ UNCHANGED <<pc, results, companies, call>>

\* scanner.get_flags_list(row)
GetFlagsList ==
    /\ pc = "direct"
    /\ report' = [kind |-> "get_flags_list", status |-> "ok",
                  rows |-> get_flags_list(call.flags.s)]
    /\ UNCHANGED <<pc, results, companies, call>>

NextTokens == ParseFlags \/ GetFlagsList

SpecTokens == InitTokens /\ [][NextTokens]_vars

\* The accumulator filled with evidence that reaches every branch of
\* generate_thesis: ranks inside and outside the top 5, categories of equal
\* weight (growth and cash) written in both orders, a warning, no flag at all.
EvidencesThesis ==
    { Evidence(3, PyFloat(875), PyStr(<<"[", "T", "]">>)),
      Evidence(4, PyFloat(700), PyStr(<<"[", "!", "]">>)),
      Evidence(8, PyFloat(510), PyStr(<<"[", "C", "]", "[", "G", "]">>)),
      Evidence(25, PyFloat(120), PyStr(<<"[", "G", "]", "[", "C", "]", "[", "Q", "]">>)),
      Evidence(25, PyFloat(0), PyStr(<<>>)) }

NextThesis == AddNextAppearance(EvidencesThesis, {PyNone})

SpecThesis == InitAccumulator /\ [][NextThesis]_vars

\* The accumulator read between add_appearance calls: the values returned by
\* the last round of reads are kept in report, and call is NoCall after a read,
\* which takes no argument.
ReadAll_memoized(self) ==
    IF report.kind = "metrics" THEN report.rows[1] ELSE ComputeAll(self)

ReadAll(self) == ComputeAll(self)

ReadMetrics ==
    /\ pc = "direct"
    /\ report' = [kind |-> "metrics", status |-> "ok", rows |-> <<ReadAll(companies[1])>>]
    /\ call' = NoCall
    /\ UNCHANGED <<pc, results, companies>>

NextReads == AddNextAppearance(EvidencesAccumulator, SegmentsAccumulator) \/ ReadMetrics

SpecReads == InitAccumulator /\ [][NextReads]_vars

\* The report builders on mappings of up to MaxCompanies companies: the mapping
\* is what aggregate_signals returns for a table of 'Quality Growth' listing the
\* first companies of TickersReports once each, and a table of 'Turnaround' that
\* is empty or lists the first of them again, at rank 3.
TickersReports == <<PKN, CDR, KGH, ALE, LPP>>

EvidencesReports ==
    { Evidence(3, PyFloat(875), PyStr(<<"[", "G", "]">>)),
      Evidence(8, PyFloat(510), PyStr(<<"[", "G", "]", "[", "R", "]", "[", "!", "]">>)),
      Evidence(25, PyFloat(120), PyStr(<<"[", "Q", "]">>)) }

EvidenceRow(ticker, e) == Row(PyStr(ticker), PyInt(e.rank), e.score, e.flags, PyStr(GPW))

FirstTables ==
    {[model_name |-> QualityGrowth,
      rows |-> [i \in DOMAIN es |-> EvidenceRow(TickersReports[i], es[i])]] :
        es \in UNION {[1..n -> EvidencesReports] : n \in 0..MaxCompanies}}

SecondTables ==
    { [model_name |-> Turnaround, rows |-> <<>>],
      [model_name |-> Turnaround,
       rows |-> <<EvidenceRow(TickersReports[1],
                              Evidence(3, PyFloat(700), PyStr(<<"[", "G", "]">>)))>>] }

TopNsReports == {0, 1, 3, 30}

InitReports ==
    /\ pc = "returned"
    /\ results \in {<<first, second>> : first \in FirstTables, second \in SecondTables}
    /\ companies = aggregate_signals(results).companies
    /\ call = NoCall
    /\ report = NoReport

NextReports ==
    \/ CreateConsensus
    \/ CreateFlagHeatmap(TopNsReports)
    \/ CreateBestOf
    \/ CreateProfiles

SpecReports == InitReports /\ [][NextReports]_vars

\* The consensus and heatmap builders on mappings whose companies are listed by
\* one scanner each, with signal strengths 5.15 ('[G]'), 5.2 ('[S]'), 10.0 and
\* 1.5: round(5.15, 1) and round(5.2, 1) are both 5.2.
EvidencesRanking ==
    { Evidence(25, PyFloat(120), PyStr(<<"[", "G", "]">>)),
      Evidence(25, PyFloat(110), PyStr(<<"[", "S", "]">>)),
      Evidence(3, PyFloat(875), PyStr(<<"[", "T", "]">>)),
      Evidence(25, PyFloat(0), PyStr(<<>>)) }

TablesRanking ==
    {<<[model_name |-> QualityGrowth,
        rows |-> [i \in DOMAIN es |-> EvidenceRow(TickersReports[i], es[i])]]>> :
        es \in UNION {[1..n -> EvidencesRanking] : n \in 0..MaxCompanies}}

InitRanking ==
    /\ pc = "returned"
    /\ results \in TablesRanking
    /\ companies = aggregate_signals(results).companies
    /\ call = NoCall
    /\ report = NoReport

NextRanking == CreateConsensus \/ CreateFlagHeatmap(TopNsReports)

SpecRanking == InitRanking /\ [][NextRanking]_vars

\* The consensus builder on a company that each of the seven scanners of
\* MODEL_THEMES lists once or not at all: with all seven listing it and one
\* positive flag, flag_density * 3 is 3/7 and the signal strength lies between
\* two tenths.
EvidencesTiers ==
    { Evidence(3, PyFloat(875), PyStr(<<>>)),
      Evidence(8, PyFloat(510), PyStr(<<"[", "M", "]">>)),
      Evidence(25, PyFloat(120), PyStr(<<>>)) }

TableOf(model_name, listing) ==
    [model_name |-> model_name,
     rows |-> IF listing = PyNone THEN <<>> ELSE <<EvidenceRow(PKN, listing)>>]

TablesTiers ==
    {[i \in 1..NumModelThemes |-> TableOf(ModelLabels[i], listings[i])] :
        listings \in [1..NumModelThemes -> EvidencesTiers \cup {PyNone}]}

InitTiers ==
    /\ pc = "returned"
    /\ results \in TablesTiers
    /\ companies = aggregate_signals(results).companies
    /\ call = NoCall
    /\ report = NoReport

NextTiers == CreateConsensus

SpecTiers == InitTiers /\ [][NextTiers]_vars

----------------------------------------------------------------------------
(* Claims about aggregate_signals (SpecAggregate)                          *)

\* The rows read so far, in the order the loops read them
RECURSIVE FlatRows(_)
FlatRows(tables) ==
    IF tables = <<>> THEN <<>>
    ELSE [i \in DOMAIN Head(tables).rows |->
             [model_name |-> Head(tables).model_name, row |-> Head(tables).rows[i]]]
         \o FlatRows(Tail(tables))

\* A row names a company: its Ticker cell is a non-empty string
NamesCompany(row) == row.Ticker.k = "str" /\ row.Ticker.s # <<>>

TickersOf(tables) ==
    {e.row.Ticker.s : e \in {x \in Range(FlatRows(tables)) : NamesCompany(x.row)}}

ModelsListing(tables, ticker) ==
    {e.model_name : e \in {x \in Range(FlatRows(tables)) :
                              NamesCompany(x.row) /\ x.row.Ticker.s = ticker}}

Company(comps, ticker) == comps[TickerIndex(comps, ticker)]

Keys(comps) == {comps[i].ticker : i \in DOMAIN comps}

ModelKeys(self) == {self.appearances[i].model_name : i \in DOMAIN self.appearances}

\* The rows merged one at a time in the order given (single writer)
RECURSIVE MergeRows(_, _)
MergeRows(comps, entries) ==
    IF entries = <<>> THEN comps
    ELSE MergeRows(process_row(comps, Head(entries).model_name, Head(entries).row).companies,
                   Tail(entries))

OncePerScanner(tables) ==
    LET flat == FlatRows(tables)
    IN  \A i, j \in DOMAIN flat :
           (/\ NamesCompany(flat[i].row)
            /\ flat[i].row.Ticker = flat[j].row.Ticker
            /\ flat[i].model_name = flat[j].model_name) => i = j

AsSet(d) == Range(d)

Metrics(self) ==
    [coverage |-> coverage(self),
     elite_score |-> elite_score(self),
     top5_count |-> top5_count(self),
     top10_count |-> top10_count(self),
     positive_flag_count |-> positive_flag_count(self),
     warning_count |-> warning_count(self),
     unique_flags |-> unique_flags(self),
     category_strength |-> AsSet(get_category_strength(self)),
     signal_strength |-> calculate_signal_strength(self)]

\* Every company id of a mapping with the company's metrics
MetricsByCompany(comps) ==
    {[ticker |-> comps[i].ticker, metrics |-> Metrics(comps[i])] : i \in DOMAIN comps}

\* The market segments passed to add_appearance for a company, in call order
SegmentsSupplied(tables, ticker) ==
    LET mine == SelectSeq(FlatRows(tables),
                          LAMBDA e : NamesCompany(e.row) /\ e.row.Ticker.s = ticker)
    IN  [i \in DOMAIN mine |-> mine[i].row.Rynek]

NonEmptySegment(v) == v.k = "str" /\ v.s # <<>>

FirstNonEmptySegment(segments) ==
    LET hits == {i \in DOMAIN segments : NonEmptySegment(segments[i])}
    IN  IF hits = {} THEN PyNone
        ELSE segments[CHOOSE i \in hits : \A j \in hits : i <= j]

\* C5 (the claim as stated): market_segment is the value of the earliest
\* add_appearance call that supplied a non-empty value and is unset when no call
\* did; a missing or empty value is never adopted.
C5_FirstNonEmptySegmentWins ==
    pc \in {"aggregate", "returned"} =>
        \A i \in DOMAIN companies :
            companies[i].rynek =
                FirstNonEmptySegment(SegmentsSupplied(results, companies[i].ticker))

\* C6: when each company appears at most once per scanner, merging the rows in
\* any order gives every company the same coverage, elite_score, top5_count,
\* top10_count, positive_flag_count, warning_count, unique_flags,
\* category_strength values and signal_strength as the order that was run.
C6_MetricsIndependentOfOrder ==
    (pc = "returned" /\ OncePerScanner(results)) =>
        LET flat == FlatRows(results)
            here == MetricsByCompany(companies)
        IN  \A p \in Orderings(Len(flat)) :
               MetricsByCompany(MergeRows(<<>>, Reordered(flat, p))) = here

\* C6 witness: a company listed by two scanners with different ranks and flags,
\* and a second company, have been aggregated.
C6_Witness ==
    /\ pc = "returned"
    /\ OncePerScanner(results)
    /\ Len(companies) = 2
    /\ \E i \in DOMAIN companies :
          /\ coverage(companies[i]) = 2
          /\ companies[i].appearances[1].rank # companies[i].appearances[2].rank
          /\ companies[i].appearances[1].flags_list # companies[i].appearances[2].flags_list

\* C7 (the claim as stated): two accumulators built from the same rows in
\* different scanner orders return the same dominant category and the same
\* thesis.
C7_ThesisIndependentOfOrder ==
    (pc = "returned" /\ OncePerScanner(results)) =>
        LET flat == FlatRows(results)
        IN  \A p \in Orderings(Len(flat)) :
               LET other == MergeRows(<<>>, Reordered(flat, p))
               IN  \A t \in Keys(companies) \cap Keys(other) :
                      /\ get_dominant_category(Company(other, t))
                            = get_dominant_category(Company(companies, t))
                      /\ generate_thesis(Company(other, t))
                            = generate_thesis(Company(companies, t))

\* C8: the mapping returned has exactly the distinct non-empty company ids of the
\* tables as keys; each accumulator's appearances keys are exactly the labels of
\* the scanners listing the company; every accumulator has coverage >= 1.
C8_KeysAreCompaniesListed ==
    pc = "returned" =>
        /\ Keys(companies) = TickersOf(results)
        /\ Cardinality(Keys(companies)) = Len(companies)
        /\ <<>> \notin Keys(companies)
        /\ \A i \in DOMAIN companies :
              /\ ModelKeys(companies[i]) = ModelsListing(results, companies[i].ticker)
              /\ Cardinality(ModelKeys(companies[i])) = coverage(companies[i])
              /\ coverage(companies[i]) >= 1

\* C8 witness: two tables were read, rows without a company id were among them,
\* and a company listed by one scanner only was returned.
C8_Witness ==
    /\ pc = "returned"
    /\ Len(results) = 2
    /\ \E e \in Range(FlatRows(results)) : ~NamesCompany(e.row)
    /\ \E i \in DOMAIN companies : coverage(companies[i]) = 1

LastRow == results[Len(results)].rows[Len(results[Len(results)].rows)]

WellFormedFlag(f) == f # <<>> /\ \A i \in DOMAIN f : FlagChar(f[i])

\* C9: no exception leaves aggregate_signals; a row without rank is recorded with
\* rank 999, a row without score with score 0.0, a row whose flags text is empty
\* or missing with no parsed flag, a malformed text with the well-formed tokens
\* only, and a row without company id is skipped.
C9_DefaultsAndNoException ==
    /\ pc # "raised"
    /\ (pc = "aggregate" /\ results # <<>> /\ results[Len(results)].rows # <<>>) =>
          LET row == LastRow
              model_name == results[Len(results)].model_name
          IN  IF ~NamesCompany(row) THEN call = NoCall
              ELSE LET self == Company(companies, row.Ticker.s)
                       app == self.appearances[ModelIndex(self.appearances, model_name)]
                   IN  /\ HasModel(self.appearances, model_name)
                       /\ row.Rank.k = "absent" => app.rank = 999
                       /\ row.Rank.k = "int" => app.rank = row.Rank.n
                       /\ row.Total.k = "absent" => app.score = PyFloat(0)
                       /\ row.Total.k = "float" => app.score = row.Total
                       /\ (row.Flags.k \in {"absent", "NaN"} \/ row.Flags.s = <<>>)
                              => app.flags_list = <<>>
                       /\ \A k \in DOMAIN app.flags_list : WellFormedFlag(app.flags_list[k])
                       /\ row.Flags = PyStr(<<"[", "Q", "]", "[", "g", "]", "x", "[", "V">>)
                              => app.flags_list = << <<"Q">> >>

\* C9 witness: a row without score was recorded from the first table, and a row
\* without rank and flags has just been recorded from the second.
C9_Witness ==
    /\ pc = "aggregate"
    /\ Len(results) = 2
    /\ \E k \in DOMAIN results[1].rows :
          NamesCompany(results[1].rows[k]) /\ results[1].rows[k].Total.k = "absent"
    /\ results[2].rows # <<>>
    /\ NamesCompany(LastRow)
    /\ LastRow.Rank.k = "absent"
    /\ LastRow.Flags.k = "absent"
    /\ call # NoCall
    /\ call.rank = 999
    /\ \E i \in DOMAIN companies :
          /\ coverage(companies[i]) = 2
          /\ companies[i].appearances[1].score = PyFloat(0)
          /\ companies[i].appearances[2].rank = 999
          /\ companies[i].appearances[2].flags_list = <<>>

----------------------------------------------------------------------------
(* Claims about the accumulator used directly (SpecAccumulator)            *)

\* C1: signal strength = elite_score + 3*flag_density + 1.5*min(coverage,4)
\* - 2*warning_count + 0.5*min(dominant_strength,5), the dominant strength being
\* 0 when the category is 'unknown'.  Both sides are multiplied by 20*coverage
\* (by 20 when coverage is 0, where flag_density is 0); strengths are in tenths.
C1_SignalStrengthFormula ==
    pc = "direct" =>
        \A i \in DOMAIN companies :
            LET self == companies[i]
                n == coverage(self)
                dom == get_dominant_category(self)
                capped == IF n <= 4 THEN n ELSE 4
                strength == IF dom.val <= 50 THEN dom.val ELSE 50
            IN  /\ dom.cat = "unknown" => dom.val = 0
                /\ IF n = 0
                   THEN 20 * calculate_signal_strength(self) =
                            Scale * (20 * elite_score(self) - 40 * warning_count(self)
                                     + strength)
                   ELSE 20 * n * calculate_signal_strength(self) =
                            Scale * (20 * n * elite_score(self)
                                     + 60 * positive_flag_count(self)
                                     + 30 * n * capped
                                     - 40 * n * warning_count(self)
                                     + n * strength)

\* C1 witness: an accumulator beyond both caps (coverage 5, dominant strength
\* above 5) that also carries a warning.
C1_Witness ==
    /\ pc = "direct"
    /\ coverage(companies[1]) > 4
    /\ get_dominant_category(companies[1]).val > 50
    /\ warning_count(companies[1]) > 0

\* C4: an add_appearance call with a scanner label already present leaves
\* coverage unchanged, replaces that label's rank, score, raw flags and parsed
\* flags with the values of the call, and leaves the other labels' entries alone.
C4_LastWriteWins ==
    [][(/\ pc = "direct"
        /\ call' # NoCall
        /\ HasModel(companies[1].appearances, call'.model_name))
       => LET before == companies[1].appearances
              after == companies'[1].appearances
              k == ModelIndex(before, call'.model_name)
          IN  /\ Len(after) = Len(before)
              /\ after[k].model_name = call'.model_name
              /\ after[k].rank = call'.rank
              /\ after[k].score = call'.score
              /\ after[k].flags = call'.flags
              /\ after[k].flags_list = findall(call'.flags.s, 1)
              /\ \A j \in DOMAIN before : j # k => after[j] = before[j]]_vars

\* C4 witness: the last call wrote the first label of an accumulator that holds
\* two labels (labels are first written in table order, so this call wrote the
\* label a second time), with rank 25 and no flags.
C4_Witness ==
    /\ pc = "direct"
    /\ coverage(companies[1]) = 2
    /\ call # NoCall
    /\ call.model_name = companies[1].appearances[1].model_name
    /\ call.rank = 25
    /\ companies[1].appearances[1].rank = 25
    /\ companies[1].appearances[1].flags_list = <<>>

----------------------------------------------------------------------------
(* Claims about the report builders (Spec)                                 *)

\* C2 (the claim as stated): create_consensus_df returns one row per company of
\* the mapping, ordered by non-increasing signal strength, with Rank 1..n in row
\* order.
C2_OneRowPerCompanyRanked ==
    (pc = "returned" /\ report.kind = "consensus") =>
        /\ report.status = "ok"
        /\ Len(report.rows) = Len(companies)
        /\ {report.rows[i].Ticker : i \in DOMAIN report.rows} = Keys(companies)
        /\ \A i \in DOMAIN report.rows : report.rows[i].Rank = i
        /\ \A i \in 1..(Len(report.rows) - 1) :
              report.rows[i].Signal_Strength >= report.rows[i + 1].Signal_Strength

\* C3 (the claim as stated): in the consensus rows, two companies with equal
\* signal strength keep the relative order of the input mapping.
C3_TiesKeepEncounterOrder ==
    (pc = "returned" /\ report.kind = "consensus" /\ report.status = "ok") =>
        \A i, j \in DOMAIN report.rows :
            (/\ i < j
             /\ calculate_signal_strength(Company(companies, report.rows[i].Ticker))
                   = calculate_signal_strength(Company(companies, report.rows[j].Ticker)))
            => TickerIndex(companies, report.rows[i].Ticker)
                   < TickerIndex(companies, report.rows[j].Ticker)

\* C10 (the claim as stated): for zero scanners or zero usable rows the mapping
\* returned is empty, and each of the four builders returns no row and raises
\* nothing on it.
C10_EmptyInputEmptyReports ==
    (pc = "returned" /\ \A e \in Range(FlatRows(results)) : ~NamesCompany(e.row)) =>
        /\ companies = <<>>
        /\ report.kind # "none" => (report.status = "ok" /\ report.rows = <<>>)

----------------------------------------------------------------------------
(* Claims about the report builders (SpecReports)                          *)

SignalOf(comps, ticker) == calculate_signal_strength(Company(comps, ticker))

\* C11: create_flag_heatmap(companies, top_n) returns min(top_n, number of
\* companies) rows, one per selected company; no excluded company has a strictly
\* greater signal strength than an included one; the rows are in non-increasing
\* order of signal strength.
C11_HeatmapTopN ==
    pc = "returned" =>
        \A top_n \in TopNsReports :
            LET rows == create_flag_heatmap(companies, top_n).rows
                listed == {rows[i].Ticker : i \in DOMAIN rows}
            IN  /\ Len(rows) = (IF top_n <= Len(companies) THEN top_n ELSE Len(companies))
                /\ Cardinality(listed) = Len(rows)
                /\ listed \subseteq Keys(companies)
                /\ \A out \in Keys(companies) \ listed : \A inc \in listed :
                       SignalOf(companies, out) <= SignalOf(companies, inc)
                /\ \A i \in 1..(Len(rows) - 1) :
                       SignalOf(companies, rows[i].Ticker)
                           >= SignalOf(companies, rows[i + 1].Ticker)

\* C11 witness: a heatmap of three rows was built from four companies, the
\* company left out is weaker than a listed one and was not the last one
\* encountered.
C11_Witness ==
    /\ pc = "returned"
    /\ report.kind = "heatmap"
    /\ Len(report.rows) = 3
    /\ Len(companies) = 4
    /\ \E i \in 1..3 :
          /\ \A k \in DOMAIN report.rows : report.rows[k].Ticker # companies[i].ticker
          /\ \E k \in DOMAIN report.rows :
                SignalOf(companies, report.rows[k].Ticker)
                    > calculate_signal_strength(companies[i])

\* The strength of a company in a category, in tenths (0 when it has none)
StrengthIn(comps, ticker, cat) == DictGet(get_category_strength(Company(comps, ticker)), cat)

\* C12: for each of the seven non-warning categories create_best_of lists at most
\* 3 companies (3, or all that have strength in the category), each with
\* strictly positive strength in it, in non-increasing order of that strength
\* with ties in encounter order and Rank 1..k; no omitted company is strictly
\* stronger in the category than a listed one; no list is made for 'warning'.
C12_BestOfTopThree ==
    pc = "returned" =>
        LET rows == create_best_of(companies).rows
            positive(cat) == {t \in Keys(companies) : StrengthIn(companies, t, cat) > 0}
        IN  /\ \A i \in DOMAIN rows :
                  \E c \in DOMAIN BestOfCategories :
                      /\ rows[i].Category = BestOfCategories[c].name
                      /\ BestOfCategories[c].cat \in Categories \ {"warning"}
            /\ \A c \in DOMAIN BestOfCategories :
                  LET cat == BestOfCategories[c].cat
                      list == SelectSeq(rows, LAMBDA r : r.Category = BestOfCategories[c].name)
                      listed == {list[i].Ticker : i \in DOMAIN list}
                  IN  /\ Len(list) <= 3
                      /\ Len(list) = (IF Cardinality(positive(cat)) <= 3
                                      THEN Cardinality(positive(cat)) ELSE 3)
                      /\ Cardinality(listed) = Len(list)
                      /\ listed \subseteq positive(cat)
                      /\ \A i \in DOMAIN list :
                            /\ list[i].Rank = i
                            /\ list[i].Category_Score = StrengthIn(companies, list[i].Ticker, cat)
                      /\ \A i, j \in DOMAIN list :
                            i < j =>
                               \/ list[i].Category_Score > list[j].Category_Score
                               \/ /\ list[i].Category_Score = list[j].Category_Score
                                  /\ TickerIndex(companies, list[i].Ticker)
                                        < TickerIndex(companies, list[j].Ticker)
                      /\ \A out \in Keys(companies) \ listed : \A inc \in listed :
                            StrengthIn(companies, out, cat) <= StrengthIn(companies, inc, cat)
            /\ {BestOfCategories[c].cat : c \in DOMAIN BestOfCategories}
                  = Categories \ {"warning"}

\* C12 witness: a best-of report built from four companies that all have growth
\* strength, not all the same: the GROWTH list holds three of them and leaves out
\* the last one encountered among the weakest; a company without quality
\* strength is not in the QUALITY list.
C12_Witness ==
    /\ pc = "returned"
    /\ report.kind = "best_of"
    /\ Len(companies) = 4
    /\ \A i \in DOMAIN companies : StrengthIn(companies, companies[i].ticker, "growth") > 0
    /\ LET growth == SelectSeq(report.rows, LAMBDA r : r.Category = "GROWTH")
       IN  /\ Len(growth) = 3
           /\ growth[1].Category_Score > growth[3].Category_Score
           /\ \A i \in DOMAIN growth : growth[i].Ticker # companies[4].ticker
    /\ \A i \in DOMAIN report.rows : report.rows[i].Category # "QUALITY"

\* The position of a scanner's table in the input, as the driver iterates it
TableIndex(tables, model_name) ==
    CHOOSE i \in DOMAIN tables : tables[i].model_name = model_name

\* C13: create_profiles returns one row per (company, scanner appearance) pair;
\* the rows of a company are contiguous; companies are in non-increasing order
\* of signal strength; within a company the rows follow the order in which the
\* scanner tables were iterated, whatever the ranks.
C13_ProfilesGrouped ==
    pc = "returned" =>
        LET rows == create_profiles(companies).rows
            expected == UNION {{<<companies[i].ticker, m>> : m \in ModelKeys(companies[i])} :
                                  i \in DOMAIN companies}
        IN  /\ {<<rows[i].Ticker, rows[i].Model>> : i \in DOMAIN rows} = expected
            /\ Len(rows) = Cardinality(expected)
            /\ \A i \in DOMAIN rows :
                  LET self == Company(companies, rows[i].Ticker)
                      app == self.appearances[ModelIndex(self.appearances, rows[i].Model)]
                  IN  /\ rows[i].Rank_in_Model = app.rank
                      /\ rows[i].Flags_in_Model = app.flags
            /\ \A i, j, k \in DOMAIN rows :
                  (i < j /\ j < k /\ rows[i].Ticker = rows[k].Ticker)
                      => rows[j].Ticker = rows[i].Ticker
            /\ \A i, j \in DOMAIN rows :
                  i < j => /\ SignalOf(companies, rows[i].Ticker)
                                >= SignalOf(companies, rows[j].Ticker)
                           /\ rows[i].Ticker = rows[j].Ticker
                                => TableIndex(results, rows[i].Model)
                                      < TableIndex(results, rows[j].Model)

\* C13 witness: profiles were built for a company listed at rank 25 by the first
\* table and at rank 3 by the second, its two rows in that order, and for two
\* more companies that come out in the opposite of their encounter order.
C13_Witness ==
    /\ pc = "returned"
    /\ report.kind = "profiles"
    /\ Len(companies) = 3
    /\ Len(report.rows) = 4
    /\ report.rows[1].Ticker = report.rows[2].Ticker
    /\ report.rows[1].Rank_in_Model = 25
    /\ report.rows[2].Rank_in_Model = 3
    /\ report.rows[3].Ticker = companies[3].ticker
    /\ report.rows[4].Ticker = companies[2].ticker

----------------------------------------------------------------------------
(* Claims about the rank metrics (SpecRanks)                               *)

RanksWhere(self, lo, hi) ==
    Cardinality({i \in DOMAIN self.appearances :
                    lo < self.appearances[i].rank /\ self.appearances[i].rank <= hi})

\* C14: elite_score is the sum over the appearances of 5 points for rank <= 5,
\* 3 points for 5 < rank <= 10, 1 point for 10 < rank <= 20 and 0 points beyond,
\* the default rank 999 included; ranks 1, 6, 11, 21 give 9.
C14_EliteScoreSteps ==
    pc = "direct" =>
        LET self == companies[1]
            ranks == [i \in DOMAIN self.appearances |-> self.appearances[i].rank]
        IN  /\ elite_score(self) =
                   5 * RanksWhere(self, 0, 5) + 3 * RanksWhere(self, 5, 10)
                   + 1 * RanksWhere(self, 10, 20) + 0 * RanksWhere(self, 20, DefaultRank)
            /\ RanksWhere(self, 0, 5) + RanksWhere(self, 5, 10) + RanksWhere(self, 10, 20)
                   + RanksWhere(self, 20, DefaultRank) = coverage(self)
            /\ ranks = <<1, 6, 11, 21>> => elite_score(self) = 9
            /\ ranks = <<DefaultRank>> => elite_score(self) = 0

\* C14 witness: four scanners list the company at ranks 5, 10, 20 and 999.
C14_Witness ==
    /\ pc = "direct"
    /\ coverage(companies[1]) = 4
    /\ [i \in 1..4 |-> companies[1].appearances[i].rank] = <<5, 10, 20, DefaultRank>>
    /\ elite_score(companies[1]) = 9

----------------------------------------------------------------------------
(* Claims about the flag metrics (SpecFlags)                               *)

\* The number of entries of a flag list that are in a set of flags
CountIn(flags, S) == Cardinality({k \in DOMAIN flags : flags[k] \in S})

RECURSIVE EntriesIn(_, _)
EntriesIn(apps, S) ==
    IF apps = <<>> THEN 0
    ELSE CountIn(Head(apps).flags_list, S) + EntriesIn(Tail(apps), S)

RECURSIVE Entries(_)
Entries(apps) ==
    IF apps = <<>> THEN 0 ELSE Len(Head(apps).flags_list) + Entries(Tail(apps))

WarningSymbols == {<<"!">>, <<"?">>}

\* C15: warning_count is the number of entries of all_flags equal to '!' or '?',
\* positive_flag_count the number of all other entries, duplicates across
\* scanners counted; flag_density is positive_flag_count / coverage, and 0 when
\* coverage is 0.
C15_FlagCounts ==
    pc = "direct" =>
        LET self == companies[1]
            warnings == EntriesIn(self.appearances, WarningSymbols)
            entries == Entries(self.appearances)
        IN  /\ Len(all_flags(self)) = entries
            /\ warning_count(self) = warnings
            /\ warning_count(self) = CountIn(all_flags(self), WarningSymbols)
            /\ positive_flag_count(self) = entries - warnings
            /\ coverage(self) = 0 => get_flag_density(self) = 0
            /\ coverage(self) > 0 =>
                  get_flag_density(self) * coverage(self) = positive_flag_count(self) * Scale

\* C15 witness: three scanners, the same positive flag recorded by two of them,
\* two warnings, and a flag density that is not a whole number.
C15_Witness ==
    /\ pc = "direct"
    /\ coverage(companies[1]) = 3
    /\ companies[1].appearances[1].flags_list = << <<"Q">> >>
    /\ companies[1].appearances[2].flags_list = << <<"Q">> >>
    /\ companies[1].appearances[3].flags_list = << <<"!">>, <<"?">> >>
    /\ positive_flag_count(companies[1]) = 2
    /\ warning_count(companies[1]) = 2
    /\ get_flag_density(companies[1]) * 3 = 2 * Scale

\* The flags FLAG_CATEGORIES lists for a category
FlagsOf(cat) ==
    UNION {Range(FLAG_CATEGORIES[i].flags) :
              i \in {k \in DOMAIN FLAG_CATEGORIES : FLAG_CATEGORIES[k].cat = cat}}

AllListedFlags == UNION {FlagsOf(cat) : cat \in Categories}

\* The category weights, in tenths, as the configuration states them
StatedWeight(cat) ==
    CASE cat = "quality" -> 15
      [] cat = "growth" -> 13
      [] cat = "value" -> 12
      [] cat = "momentum" -> 11
      [] cat = "safety" -> 14
      [] cat = "cash" -> 13
      [] cat = "turnaround" -> 10
      [] cat = "warning" -> -20

\* C16: category_strength[c] is weight(c) times the number of entries of
\* all_flags that are flags of c, every occurrence counted (a category without
\* such an entry has no strength); a flag belongs to exactly one category; a
\* parsed flag of no category adds to no category strength and is counted in
\* positive_flag_count.
C16_CategoryStrength ==
    pc = "direct" =>
        LET self == companies[1]
            strength == get_category_strength(self)
            flags == all_flags(self)
        IN  /\ \A c \in Categories :
                  /\ DictGet(strength, c) = StatedWeight(c) * CountIn(flags, FlagsOf(c))
                  /\ (\E i \in DOMAIN strength : strength[i].cat = c)
                        <=> CountIn(flags, FlagsOf(c)) > 0
            /\ \A i, j \in DOMAIN strength : strength[i].cat = strength[j].cat => i = j
            /\ \A i \in DOMAIN strength : strength[i].cat \in Categories
            /\ \A c, d \in Categories : c # d => FlagsOf(c) \cap FlagsOf(d) = {}
            /\ \A f \in AllListedFlags :
                  FlagMapped(f) /\ f \in FlagsOf(FLAG_TO_CATEGORY(f))
            /\ positive_flag_count(self) =
                  CountIn(flags, AllListedFlags \ FlagsOf("warning"))
                  + (Len(flags) - CountIn(flags, AllListedFlags))

\* C16 witness: two scanners record [G][R] each and a third records the flags X
\* and !? of no category: growth strength is 4 * 1.3, no other category has
\* strength, and positive_flag_count is 6.
C16_Witness ==
    /\ pc = "direct"
    /\ coverage(companies[1]) = 3
    /\ all_flags(companies[1]) =
          << <<"G">>, <<"R">>, <<"G">>, <<"R">>, <<"X">>, <<"!", "?">> >>
    /\ get_category_strength(companies[1]) = <<[cat |-> "growth", val |-> 52]>>
    /\ positive_flag_count(companies[1]) = 6

\* C17: get_dominant_category returns a non-warning category whose strength is
\* maximal among the non-warning categories, with that strength; it returns
\* ('unknown', 0) when no flag of the company is a flag of a non-warning
\* category; it never returns 'warning'.
C17_DominantCategory ==
    pc = "direct" =>
        LET self == companies[1]
            dom == get_dominant_category(self)
            strength == get_category_strength(self)
            others == Categories \ {"warning"}
            mapped == CountIn(all_flags(self), AllListedFlags \ FlagsOf("warning"))
        IN  /\ dom.cat # "warning"
            /\ mapped = 0 => dom = [cat |-> "unknown", val |-> 0]
            /\ mapped > 0 =>
                  /\ dom.cat \in others
                  /\ dom.val = DictGet(strength, dom.cat)
                  /\ dom.val = StatedWeight(dom.cat) * CountIn(all_flags(self), FlagsOf(dom.cat))
                  /\ \A c \in others : DictGet(strength, c) <= dom.val

\* C17 witness: the only flags of the company are [!] and [?], recorded by two
\* scanners: the warning strength is the only strength and the dominant category
\* is ('unknown', 0).
C17_Witness ==
    /\ pc = "direct"
    /\ coverage(companies[1]) = 2
    /\ all_flags(companies[1]) = << <<"!">>, <<"?">>, <<"!">>, <<"?">> >>
    /\ get_category_strength(companies[1]) = <<[cat |-> "warning", val |-> -80]>>
    /\ get_dominant_category(companies[1]) = [cat |-> "unknown", val |-> 0]

----------------------------------------------------------------------------
(* Claims about the parsed flags (SpecAggregate, SpecTokens)              *)

\* s[i..j] is a bracketed non-empty run of A-Z, '!' or '?'
IsToken(s, i, j) ==
    /\ i + 1 < j
    /\ s[i] = "["
    /\ s[j] = "]"
    /\ \A k \in (i + 1)..(j - 1) : FlagChar(s[k])

TokenStarts(s) == {i \in DOMAIN s : \E j \in DOMAIN s : IsToken(s, i, j)}

TokenEnd(s, i) == CHOOSE j \in DOMAIN s : IsToken(s, i, j)

\* The runs of the tokens of s, from left to right.  A run holds no bracket, so
\* two tokens never overlap and every token is a match of the pattern.
RECURSIVE RunsFrom(_, _)
RunsFrom(s, starts) ==
    IF starts = {} THEN <<>>
    ELSE LET i == CHOOSE x \in starts : \A y \in starts : x <= y
         IN  <<SubSeq(s, i + 1, TokenEnd(s, i) - 1)>> \o RunsFrom(s, starts \ {i})

Extracted(s) == RunsFrom(s, TokenStarts(s))

\* C18: in every accumulator state, the parsed flag list stored with an entry is
\* the list of the bracketed runs of A-Z, '!' or '?' of the raw flag text stored
\* with the same entry.
C18_ParsedMatchesRaw ==
    pc \in {"aggregate", "returned"} =>
        \A i \in DOMAIN companies : \A k \in DOMAIN companies[i].appearances :
            LET app == companies[i].appearances[k]
            IN  /\ app.flags.k = "str"
                /\ app.flags_list = Extracted(app.flags.s)

\* C18 witness: a scanner listed the company twice, first with the text [G] and
\* then with a malformed text, and the entry holds the malformed text with the
\* one flag it contains.
C18_Witness ==
    /\ pc = "aggregate"
    /\ Len(results) = 1
    /\ Len(results[1].rows) = 2
    /\ results[1].rows[1].Ticker = PyStr(PKN)
    /\ results[1].rows[1].Flags = PyStr(<<"[", "G", "]">>)
    /\ results[1].rows[2].Ticker = PyStr(PKN)
    /\ Len(companies) = 1
    /\ coverage(companies[1]) = 1
    /\ companies[1].appearances[1].flags =
          PyStr(<<"[", "Q", "]", "[", "g", "]", "x", "[", "V">>)
    /\ companies[1].appearances[1].flags_list = << <<"Q">> >>

\* s from index i on is a concatenation of zero or more tokens
RECURSIVE WellFormedFrom(_, _)
WellFormedFrom(s, i) ==
    \/ i > Len(s)
    \/ \E j \in (i + 2)..Len(s) : IsToken(s, i, j) /\ WellFormedFrom(s, j + 1)

\* every element of the list in brackets, concatenated
RECURSIVE Serialized(_)
Serialized(flags_list) ==
    IF flags_list = <<>> THEN <<>>
    ELSE <<"[">> \o Head(flags_list) \o <<"]">> \o Serialized(Tail(flags_list))

Parsed == report.kind \in {"_parse_flags", "get_flags_list"}

\* C19: for every text that is a concatenation of zero or more tokens [X], X a
\* non-empty run of A-Z, '!' or '?', the list either parser returns, each element
\* put in brackets and all concatenated, is the text itself.
C19_RoundTrip ==
    (Parsed /\ WellFormedFrom(call.flags.s, 1)) =>
        Serialized(report.rows) = call.flags.s

\* C19 witness: _parse_flags was applied to the text [Q][!] of two tokens and
\* returned both runs.
C19_Witness ==
    /\ report.kind = "_parse_flags"
    /\ call.flags.s = <<"[", "Q", "]", "[", "!", "]">>
    /\ report.rows = << <<"Q">>, <<"!">> >>

----------------------------------------------------------------------------
(* Claims about the accumulator without appearances (SpecAccumulator)      *)

\* C20: an accumulator with no appearance answers coverage 0, elite score 0, no
\* top-5 and no top-10 appearance, no flag and no unique flag, no warning and no
\* positive flag, flag density 0, an empty category strength, the dominant
\* category ('unknown', 0), signal strength 0 and the thesis 'Brak danych'.
C20_EmptyAccumulator ==
    \A i \in DOMAIN companies :
        companies[i].appearances = <<>> =>
            LET self == companies[i]
            IN  /\ coverage(self) = 0
                /\ elite_score(self) = 0
                /\ top5_count(self) = 0
                /\ top10_count(self) = 0
                /\ all_flags(self) = <<>>
                /\ unique_flags(self) = {}
                /\ warning_count(self) = 0
                /\ positive_flag_count(self) = 0
                /\ get_flag_density(self) = 0
                /\ get_category_strength(self) = <<>>
                /\ get_dominant_category(self) = [cat |-> "unknown", val |-> 0]
                /\ calculate_signal_strength(self) = 0
                /\ generate_thesis(self) = <<Lit("Brak danych")>>

\* C20 witness: the accumulator as CompanySignals(ticker) constructed it, before
\* any add_appearance.
C20_Witness ==
    /\ pc = "direct"
    /\ call = NoCall
    /\ companies = <<NewCompanySignals(PKN)>>
    /\ coverage(companies[1]) = 0
    /\ generate_thesis(companies[1]) = <<Lit("Brak danych")>>

----------------------------------------------------------------------------
(* Claims about reading the accumulator (SpecReads)                        *)

\* C21: a step that reads the metrics leaves appearances and market segment as
\* they were, and every value it returns is the metric of the appearances the
\* accumulator holds at that moment, whatever an earlier read returned.
C21_ReadsPureAndFresh ==
    [][call' = NoCall =>
          /\ companies' = companies
          /\ report'.kind = "metrics"
          /\ LET m == report'.rows[1]
                 self == companies'[1]
             IN  /\ m.coverage = Len(self.appearances)
                 /\ m.elite_score = elite_score(self)
                 /\ m.top5_count = top5_count(self)
                 /\ m.top10_count = top10_count(self)
                 /\ m.all_flags = all_flags(self)
                 /\ m.unique_flags = unique_flags(self)
                 /\ m.warning_count = warning_count(self)
                 /\ m.positive_flag_count = positive_flag_count(self)
                 /\ m.flag_density = get_flag_density(self)
                 /\ m.category_strength = get_category_strength(self)
                 /\ m.dominant_category = get_dominant_category(self)
                 /\ m.signal_strength = calculate_signal_strength(self)
                 /\ m.thesis = generate_thesis(self)
                 /\ m.models_summary = get_models_summary(self)]_vars

\* C21 witness: the metrics were read after the second add_appearance call and
\* show both appearances, while the segment set by a call is still in place.
C21_Witness ==
    /\ report.kind = "metrics"
    /\ Len(companies[1].appearances) = 2
    /\ companies[1].rynek = PyStr(GPW)
    /\ call = NoCall
    /\ report.rows[1].coverage = 2
    /\ report.rows[1].warning_count >= 1
    /\ report.rows[1].models_summary = get_models_summary(companies[1])

----------------------------------------------------------------------------
(* Claims about the thesis (SpecThesis)                                    *)

\* The thesis opens with the label, " (", the conviction tier and ")"
ConvictionShown(self) == generate_thesis(self)[3].s

\* C22: for coverage >= 1 the tier in the thesis is Strong when the signal
\* strength is at least 15, Medium when it is at least 10 and below 15, and Weak
\* when it is below 10.
C22_ConvictionTiers ==
    \A i \in DOMAIN companies :
        LET self == companies[i]
            signal == calculate_signal_strength(self)
        IN  coverage(self) >= 1 =>
                /\ signal >= 15 * Scale => ConvictionShown(self) = "Strong"
                /\ (signal >= 10 * Scale /\ signal < 15 * Scale)
                      => ConvictionShown(self) = "Medium"
                /\ signal < 10 * Scale => ConvictionShown(self) = "Weak"

\* C22 witness: an accumulator whose signal strength is exactly 10, shown as
\* Medium.
C22_Witness ==
    /\ pc = "direct"
    /\ coverage(companies[1]) >= 1
    /\ calculate_signal_strength(companies[1]) = 10 * Scale
    /\ ConvictionShown(companies[1]) = "Medium"

\* The position of a category in the category table
CategoryIndex(cat) == CHOOSE i \in DOMAIN FLAG_CATEGORIES : FLAG_CATEGORIES[i].cat = cat

\* The non-warning categories in which the accumulator has strength
RatedCategories(self) ==
    {e.cat : e \in Range(DictPop(get_category_strength(self), "warning"))}

StrengthOf(self, cat) == DictGet(get_category_strength(self), cat)

\* Category a comes before category b: stronger, or as strong and earlier in the
\* category table.
BeforeByTable(self, a, b) ==
    \/ StrengthOf(self, a) > StrengthOf(self, b)
    \/ /\ StrengthOf(self, a) = StrengthOf(self, b)
       /\ CategoryIndex(a) < CategoryIndex(b)

\* C23 (the claim as stated): the categories generate_thesis selects are the
\* first two in order of decreasing strength, categories of equal strength in
\* the order of the category table, whatever the order of the recorded flags.
C23_TiesByCategoryTable ==
    \A i \in DOMAIN companies :
        LET self == companies[i]
            top == TopTwoCategories(self)
        IN  coverage(self) >= 1 =>
                \A k \in DOMAIN top :
                    Cardinality({c \in RatedCategories(self) :
                                    BeforeByTable(self, c, top[k].cat)}) = k - 1

\* The labels of the scanners that rank the company in the top 5, in the order
\* the scanners were recorded
Top5Labels(self) ==
    LET hits == SelectSeq(self.appearances, LAMBDA a : a.rank <= 5)
    IN  [i \in DOMAIN hits |-> hits[i].model_name]

\* The TOP5 clause: none, the truncated label of the one scanner, or the count
Top5Clause(self) ==
    LET labels == Top5Labels(self)
    IN  IF Len(labels) = 0 THEN <<>>
        ELSE IF Len(labels) = 1
        THEN << <<Lit("TOP5: "), Chars(SubSeq(labels[1], 1, Min(15, Len(labels[1]))))>> >>
        ELSE << <<Lit("TOP5 w "), Num(Len(labels)), Lit(" modelach")>> >>

\* The phrases of the selected categories, in the order of selection
CategoryPhrases(self) ==
    LET top == TopTwoCategories(self)
    IN  [k \in DOMAIN top |-> <<Lit(flag_desc(top[k].cat))>>]

WarningClause(self) ==
    IF warning_count(self) > 0
    THEN << <<Lit("(!) "), Num(warning_count(self)), Lit("x warning")>> >>
    ELSE <<>>

\* C24: for coverage >= 1 the thesis is the label of the dominant category, the
\* tier in parentheses and, exactly when there is a clause, ': ' and the clauses
\* joined by ', ': the TOP5 clause, then at most two category phrases, then the
\* warning clause, which is there exactly when warning_count > 0.
C24_ThesisFormat ==
    \A i \in DOMAIN companies :
        LET self == companies[i]
            head == <<Lit(category_names(get_dominant_category(self).cat)), Lit(" ("),
                      Lit(ConvictionShown(self)), Lit(")")>>
            phrases == CategoryPhrases(self)
            clauses == Top5Clause(self) \o phrases \o WarningClause(self)
            thesis == generate_thesis(self)
        IN  coverage(self) >= 1 =>
                /\ Len(phrases) <= 2
                /\ Len(phrases) = Min(2, Cardinality(RatedCategories(self)))
                /\ \A k \in DOMAIN phrases : phrases[k][1].s # ""
                /\ IF clauses = <<>>
                   THEN /\ thesis = head
                        /\ Lit(": ") \notin Range(thesis)
                   ELSE thesis = head \o <<Lit(": ")>> \o Join(Lit(", "), clauses)

\* C24 witness: the only top-5 rank comes from 'Revenue Momentum & Safety',
\* whose label is cut to 15 characters, and the thesis goes on with two category
\* phrases and a warning clause.
C24_Witness ==
    /\ pc = "direct"
    /\ coverage(companies[1]) = 3
    /\ Top5Clause(companies[1]) =
          << <<Lit("TOP5: "),
               Chars(<<"R", "e", "v", "e", "n", "u", "e", " ", "M", "o", "m", "e", "n", "t", "u">>)>> >>
    /\ Len(CategoryPhrases(companies[1])) = 2
    /\ warning_count(companies[1]) = 1
    /\ Len(generate_thesis(companies[1])) = 15

----------------------------------------------------------------------------
(* Claims about the growth of the mapping (SpecAggregate)                  *)

\* C25: from one step of aggregate_signals to the next, the company ids that
\* appear are exactly the ids the processed row is the first to carry; no id and
\* no scanner label of a company disappears, and no coverage decreases.
C25_MappingOnlyGrows ==
    [][/\ Keys(companies') \ Keys(companies) = TickersOf(results') \ TickersOf(results)
       /\ Len(companies') = Cardinality(Keys(companies'))
       /\ \A i \in DOMAIN companies :
             /\ i \in DOMAIN companies'
             /\ companies'[i].ticker = companies[i].ticker
             /\ ModelKeys(companies[i]) \subseteq ModelKeys(companies'[i])
             /\ coverage(companies'[i]) >= coverage(companies[i])]_vars

\* C25 witness: three rows were processed, for PKN, CDR and PKN again under the
\* second scanner: two accumulators exist, in the order of their first rows, the
\* first with both scanner labels.
C25_Witness ==
    /\ pc = "aggregate"
    /\ Len(results) = 2
    /\ Len(results[1].rows) = 2
    /\ Len(results[2].rows) = 1
    /\ Len(companies) = 2
    /\ companies[1].ticker = PKN
    /\ companies[2].ticker = CDR
    /\ ModelKeys(companies[1]) = {results[1].model_name, results[2].model_name}
    /\ coverage(companies[2]) = 1

----------------------------------------------------------------------------
(* Claims about the two rankings (SpecRanking)                             *)

TickerColumn(rows) == [i \in DOMAIN rows |-> rows[i].Ticker]

\* C26 (the claim as stated, for the mappings on which create_consensus_df
\* returns): the tickers of create_flag_heatmap(companies, top_n), in row order,
\* are the first min(top_n, n) tickers of the consensus rows.
C26_HeatmapIsConsensusPrefix ==
    (pc = "returned" /\ report.kind = "consensus" /\ report.status = "ok") =>
        \A top_n \in TopNsReports :
            TickerColumn(create_flag_heatmap(companies, top_n).rows)
                = SubSeq(TickerColumn(report.rows), 1, Min(top_n, Len(companies)))

----------------------------------------------------------------------------
(* Claims about the signal strength along add_appearance calls (SpecThesis) *)

\* The step adds an appearance under a label not yet present, with no warning
\* symbol among its flags.
AddsNewLabelWithoutWarning ==
    /\ coverage(companies'[1]) = coverage(companies[1]) + 1
    /\ ~HasModel(companies[1].appearances, call'.model_name)
    /\ \A f \in Range(_parse_flags(call'.flags)) : ~IsWarning(f)

\* The number of flags of the call that are not warnings
PositiveFlagsOfCall(c) ==
    LET fl == _parse_flags(c.flags) IN Cardinality({k \in DOMAIN fl : ~IsWarning(fl[k])})

\* C27 (the claim as stated): adding an appearance under a new label, without
\* warning symbol, never decreases the signal strength, whatever its rank.
C27_NewAppearanceNeverLowersSignal ==
    [][AddsNewLabelWithoutWarning =>
          calculate_signal_strength(companies'[1])
              >= calculate_signal_strength(companies[1])]_vars

\* C27 (amended): adding an appearance under a new label, without warning
\* symbol and with at least as many positive flags as the flag density before
\* the call, never decreases the signal strength, whatever its rank.
C27_DenseAppearanceNeverLowersSignal ==
    [][(/\ AddsNewLabelWithoutWarning
        /\ PositiveFlagsOfCall(call') * coverage(companies[1])
              >= positive_flag_count(companies[1]))
         => calculate_signal_strength(companies'[1])
                >= calculate_signal_strength(companies[1])]_vars

\* The accumulator before its last appearance was added
BeforeLastAppearance(self) ==
    [self EXCEPT !.appearances = SubSeq(@, 1, Len(@) - 1)]

\* C27 witness: the last call added a third appearance at rank 25 with three
\* positive flags to an accumulator of flag density 1.5, and the signal
\* strength rose.
C27_Witness ==
    /\ pc = "direct"
    /\ coverage(companies[1]) = 3
    /\ call.rank = 25
    /\ PositiveFlagsOfCall(call) = 3
    /\ get_flag_density(BeforeLastAppearance(companies[1])) = (3 * Scale) \div 2
    /\ calculate_signal_strength(companies[1])
          > calculate_signal_strength(BeforeLastAppearance(companies[1]))

----------------------------------------------------------------------------
(* Claims about the tier shown in the consensus rows (SpecTiers)           *)

\* The tier named in a consensus row
TierOfRow(row) == row.Investment_Thesis[3].s

\* C28 (the claim as stated): in every consensus row, a shown signal strength
\* of at least 15 goes with Strong, one of at least 10 and below 15 with Medium,
\* one below 10 with Weak.  Signal_Strength is in tenths.
C28_TierAgreesWithShownSignal ==
    (report.kind = "consensus" /\ report.status = "ok") =>
        \A i \in DOMAIN report.rows :
            LET shown == report.rows[i].Signal_Strength
                tier == TierOfRow(report.rows[i])
            IN  /\ shown >= 150 => tier = "Strong"
                /\ (shown >= 100 /\ shown < 150) => tier = "Medium"
                /\ shown < 100 => tier = "Weak"

\* C28 (amended): in every consensus row the tier is the tier of the unrounded
\* signal strength, so that a Strong row shows at least 15.0, a Medium row a
\* value from 10.0 to 15.0 inclusive, and a Weak row at most 10.0.
C28_TierAgreesWithUnroundedSignal ==
    (report.kind = "consensus" /\ report.status = "ok") =>
        \A i \in DOMAIN report.rows :
            LET shown == report.rows[i].Signal_Strength
                tier == TierOfRow(report.rows[i])
                signal == SignalOf(companies, report.rows[i].Ticker)
            IN  /\ tier = "Strong" <=> signal >= 15 * Scale
                /\ tier = "Weak" <=> signal < 10 * Scale
                /\ tier \in {"Strong", "Medium", "Weak"}
                /\ tier = "Strong" => shown >= 150
                /\ tier = "Medium" => (shown >= 100 /\ shown <= 150)
                /\ tier = "Weak" => shown <= 100

\* C28 witness: all seven scanners list the company, one at rank 8 with the
\* flag M and six beyond rank 20: the signal strength is 3 + 3/7 + 6 + 0.55, the
\* row shows 10.0 and names the tier Weak.
C28_Witness ==
    /\ report.kind = "consensus"
    /\ Len(report.rows) = 1
    /\ coverage(companies[1]) = 7
    /\ elite_score(companies[1]) = 3
    /\ 140 * calculate_signal_strength(companies[1]) = 1397 * Scale
    /\ report.rows[1].Signal_Strength = 100
    /\ TierOfRow(report.rows[1]) = "Weak"

----------------------------------------------------------------------------
(* Claims about the dominant category in the thesis (SpecThesis)           *)

\* The index of the first category phrase in the thesis: after the label, the
\* tier in parentheses, ': ' and the TOP5 clause with its separator.
FirstPhraseIndex(self) ==
    6 + (IF top5_count(self) = 0 THEN 0 ELSE IF top5_count(self) = 1 THEN 3 ELSE 4)

\* C29: for an accumulator with a flag of a non-warning category, the category
\* whose label opens the thesis is the category whose phrase is the first
\* category phrase of the details, also when categories tie in strength.
C29_LabelMatchesFirstPhrase ==
    \A i \in DOMAIN companies :
        LET self == companies[i]
            thesis == generate_thesis(self)
        IN  RatedCategories(self) # {} =>
                \E cat \in Categories \ {"warning"} :
                    /\ thesis[1] = Lit(category_names(cat))
                    /\ Len(thesis) >= FirstPhraseIndex(self)
                    /\ thesis[FirstPhraseIndex(self)] = Lit(flag_desc(cat))

\* C29 witness: growth and cash tie at 2.6 above quality, cash was met first:
\* the thesis opens with CASH KING and its first phrase is the one of cash.
C29_Witness ==
    /\ pc = "direct"
    /\ StrengthOf(companies[1], "growth") = 26
    /\ StrengthOf(companies[1], "cash") = 26
    /\ StrengthOf(companies[1], "quality") = 15
    /\ generate_thesis(companies[1])[1] = Lit("CASH KING")
    /\ generate_thesis(companies[1])[FirstPhraseIndex(companies[1])] = Lit("cash flow")

----------------------------------------------------------------------------
(* Claims relating the rank metrics to each other (SpecRanks)              *)

\* C30: in every accumulator state top5_count <= top10_count <= coverage, and
\* elite_score lies between 5*top5 + 3*(top10 - top5) and that value plus
\* (coverage - top10).
C30_RankMetricsConsistent ==
    \A i \in DOMAIN companies :
        LET self == companies[i]
            floor == 5 * top5_count(self) + 3 * (top10_count(self) - top5_count(self))
        IN  /\ top5_count(self) <= top10_count(self)
            /\ top10_count(self) <= coverage(self)
            /\ floor <= elite_score(self)
            /\ elite_score(self) <= floor + (coverage(self) - top10_count(self))

\* C30 witness: ranks 5, 10, 20 and 999 give top5_count 1, top10_count 2,
\* coverage 4 and an elite score of 9, strictly between the bounds 8 and 10.
C30_Witness ==
    /\ pc = "direct"
    /\ coverage(companies[1]) = 4
    /\ top5_count(companies[1]) = 1
    /\ top10_count(companies[1]) = 2
    /\ {companies[1].appearances[k].rank : k \in 1..4} = {5, 10, 20, DefaultRank}
    /\ elite_score(companies[1]) = 9

=============================================================================
